---- MODULE Spec2Model ----
(***************************************************************************)
(* Model of the document extraction pipeline                               *)
(* (src/src/document_extraction): pipeline construction with the backend   *)
(* fallback, the per-document stage machine of process_file and            *)
(* process_bytes, the document classifier, the structured extractors and   *)
(* the simulation backend's dispatch.                                      *)
(*                                                                         *)
(* Python values are records tagged with their type in field t; None is    *)
(* the record of type NoneType.  Texts that the code trims, lower-cases or *)
(* searches are sequences of one-character strings, so that strip(),       *)
(* lower() and the `in` substring test are computed, not assumed.          *)
(***************************************************************************)
EXTENDS Integers, Sequences, FiniteSets, TLC

VARIABLES
    pc,         \* position of the single caller: New, Idle, a stage, Done, Failure
    self,       \* the ExtractionPipeline object's attributes
    live,       \* what has been done to the live (Vertex AI) backend
    call,       \* arguments and local variables of the process call in progress
    stages,     \* stages invoked so far by the call in progress, in order
    llm_log,    \* backend methods invoked so far by the call in progress, in order
    result,     \* the ExtractionResult returned by the last completed call
    history,    \* calls made, failed and succeeded on this pipeline
    extraction, \* one call of an extractor's extract, taken on its own
    ocr_run,    \* one call of TesseractOCR.extract_from_multiple, page by page
    evaluation, \* one call of calculate_field_metrics, sample by sample, or
                \* one call of compare_values
    enhancement \* one call of ImageEnhancer.enhance, sub-stage by sub-stage

vars == <<pc, self, live, call, stages, llm_log, result, history,
          extraction, ocr_run, evaluation, enhancement>>

----------------------------------------------------------------------------
(* Bounds of the model *)

MaxCalls == 2      \* process calls made on one pipeline
MaxPages == 2      \* pages of one document

----------------------------------------------------------------------------
(* Python values *)

None == [t |-> "NoneType"]

Str(s) == [t |-> "str", v |-> s]

\* Python truthiness of an Optional[str], as used by `document_type or "unknown"`.
Truthy(x) == x # None /\ x # Str("")

Exc(cls, msg) == [t |-> cls, msg |-> msg]

----------------------------------------------------------------------------
(* Text: sequences of characters *)

UpperChars == <<"A", "B", "C", "D", "E", "F", "G", "H", "I", "J", "K", "L", "M",
                "N", "O", "P", "Q", "R", "S", "T", "U", "V", "W", "X", "Y", "Z">>

LowerChars == <<"a", "b", "c", "d", "e", "f", "g", "h", "i", "j", "k", "l", "m",
                "n", "o", "p", "q", "r", "s", "t", "u", "v", "w", "x", "y", "z">>

LowerChar(c) ==
    IF \E i \in 1..Len(UpperChars) : UpperChars[i] = c
    THEN LowerChars[CHOOSE i \in 1..Len(UpperChars) : UpperChars[i] = c]
    ELSE c

\* str.lower()
Lower(s) == [i \in 1..Len(s) |-> LowerChar(s[i])]

IsSpace(c) == c \in {" ", "\n", "\t", "\r"}

SetMin(S) == CHOOSE m \in S : \A k \in S : m <= k

SetMax(S) == CHOOSE m \in S : \A k \in S : m >= k

\* str.strip()
Strip(s) ==
    LET keep == {i \in 1..Len(s) : ~IsSpace(s[i])}
    IN  IF keep = {} THEN <<>> ELSE SubSeq(s, SetMin(keep), SetMax(keep))

\* `sub in s`
Contains(s, sub) ==
    \E i \in 0..(Len(s) - Len(sub)) : SubSeq(s, i + 1, i + Len(sub)) = sub

\* `not ocr_text`, without the strip
IsBlank_Untrimmed(s) == s = <<>>

\* `not ocr_text or not ocr_text.strip()`
IsBlank(s) == s = <<>> \/ Strip(s) = <<>>

----------------------------------------------------------------------------
(* Pipeline construction *)

\* _init_ocr: self.ocr is None when Tesseract is not found.
InitOcr(tesseract) == IF tesseract = "missing" THEN None ELSE [t |-> "TesseractOCR"]

\* VertexAIClient.is_available: _initialize wraps every failure in
\* LLMClientError, which is_available turns into False.
IsAvailable(initialize_ok) == initialize_ok

\* An _init_llm that keeps the live client when the probe reports it
\* unavailable.
InitLlm_IgnoresProbe(use_mock, ctor_raises, initialize_ok) ==
    IF use_mock THEN "MockLLMClient"
    ELSE IF ctor_raises THEN "MockLLMClient"
    ELSE "VertexAIClient"

\* _init_llm: the client installed in self.llm_client.
InitLlm(use_mock, ctor_raises, initialize_ok) ==
    IF use_mock THEN "MockLLMClient"
    ELSE IF ctor_raises THEN "MockLLMClient"
    ELSE IF ~IsAvailable(initialize_ok) THEN "MockLLMClient"
    ELSE "VertexAIClient"

----------------------------------------------------------------------------
(* The inputs of a process call *)

\* document_type arguments: None (detect), the two supported types, an
\* unsupported type and the empty string.
DocTypeArgs == {None, Str("invoice"), Str("contract"), Str("receipt"), Str("")}

FileNames == {"scan.pdf", "scan.PNG", "notes.txt"}

\* What a file or a byte string actually holds.
FileContents == {"pdf", "image_rgb", "image_la", "garbage"}

BytesContents == FileContents \cup {"empty"}

\* pathlib's Path(file_path).suffix followed by str.lower().
SuffixLower(filename) ==
    CASE filename = "scan.pdf" -> ".pdf"
      [] filename = "scan.PNG" -> ".png"
      [] filename = "notes.txt" -> ".txt"

\* pathlib's Path(file_path).suffix, as written.
Suffix(filename) ==
    CASE filename = "scan.pdf" -> ".pdf"
      [] filename = "scan.PNG" -> ".PNG"
      [] filename = "notes.txt" -> ".txt"

is_pdf(filename) == SuffixLower(filename) = ".pdf"

is_image(filename) ==
    SuffixLower(filename) \in {".png", ".jpg", ".jpeg", ".tiff", ".tif", ".bmp"}

Images(n, mode) == [t |-> "list", n |-> n, mode |-> mode]

\* PDFConverter.convert_file on an existing path with a .pdf suffix.
convert_file(content, n) ==
    IF content = "pdf" THEN Images(n, "RGB")
    ELSE Exc("PDFConversionError", "Impossible de lire le PDF")

\* PDFConverter.convert_bytes.
convert_bytes(content, n) ==
    IF content = "empty" THEN Exc("PDFConversionError", "Données PDF vides")
    ELSE IF content = "pdf" THEN Images(n, "RGB")
    ELSE Exc("PDFConversionError", "Erreur lors de la conversion")

\* load_image on an existing path.
load_image(content) ==
    CASE content = "image_rgb" -> Images(1, "RGB")
      [] content = "image_la" -> Images(1, "LA")
      [] OTHER -> Exc("ValueError", "Impossible de charger l'image")

\* PIL's Image.open(io.BytesIO(file_bytes)), wrapped in a one-element list.
image_open(content) ==
    CASE content = "image_rgb" -> Images(1, "RGB")
      [] content = "image_la" -> Images(1, "LA")
      [] OTHER -> Exc("UnidentifiedImageError", "cannot identify image file")

\* The channels of np.array(image): none beside height and width for a grey
\* image, two for grey with alpha, three for colour.
Channels(mode) ==
    CASE mode = "L" -> 1
      [] mode = "LA" -> 2
      [] mode = "RGB" -> 3

\* The pixels of an image as the code changes them: the mode they come from
\* and the sub-stages that have rewritten them, in order.
Array(mode, ops) == [t |-> "ndarray", mode |-> mode, ops |-> ops]

\* The head of ImageEnhancer.enhance: an array of three dimensions goes
\* through cv2.cvtColor(img_array, cv2.COLOR_RGB2GRAY), which takes three
\* or four channels and raises on two; an array of two dimensions is taken
\* as it is.  The conversion is outside every sub-stage's try block.
Grayscale(mode) ==
    IF Channels(mode) = 2
    THEN Exc("cv2.error", "Invalid number of channels in input image")
    ELSE Array(mode, <<>>)

\* ImageEnhancer.enhance_batch: enhance on each image; the images of one
\* document have one mode.
enhance_batch(images) ==
    LET gray == Grayscale(images.mode)
    IN  IF gray.t = "ndarray" THEN images ELSE gray

\* ExtractionPipeline._preprocess.
Preprocess(filename, content, n) ==
    LET images == IF is_pdf(filename) THEN convert_file(content, n)
                  ELSE IF is_image(filename) THEN load_image(content)
                  ELSE Exc("ValueError",
                           "Format de fichier non supporté: " \o Suffix(filename))
    IN  IF images.t = "list" THEN enhance_batch(images) ELSE images

\* Step 1 of process_bytes: only a name ending in .pdf is looked at; every
\* other name is decoded as an image.
PreprocessBytes(filename, content, n) ==
    LET images == IF SuffixLower(filename) = ".pdf" THEN convert_bytes(content, n)
                  ELSE image_open(content)
    IN  IF images.t = "list" THEN enhance_batch(images) ELSE images

----------------------------------------------------------------------------
(* Text recognition *)

TxtInvoice == <<"F", "a", "c", "t", "u", "r", "e", " ", "T", "T", "C">>

TxtContract == <<"C", "O", "N", "T", "R", "A", "T">>

TxtOther == <<"l", "o", "r", "e", "m">>

TxtTyped == <<"T", "y", "p", "e", ":", " ", "b", "a", "i", "l">>

\* What TesseractOCR.extract_text can return for one page: the stripped
\* text, the confidence in hundredths and the number of words.
PageResults ==
    {[text |-> <<>>, confidence |-> 0, word_count |-> 0],
     [text |-> TxtInvoice, confidence |-> 90, word_count |-> 2],
     [text |-> TxtContract, confidence |-> 60, word_count |-> 1],
     [text |-> TxtOther, confidence |-> 60, word_count |-> 1],
     [text |-> TxtTyped, confidence |-> 90, word_count |-> 2]}

\* The separator the pipeline passes; it holds no {n}, so format leaves it.
PageSeparator == <<"\n", "\n">>

\* "".join(texts) of extract_from_multiple: the separator goes before every
\* page after the first.
RECURSIVE JoinPages(_, _)
JoinPages(pages, separator) ==
    IF pages = <<>> THEN <<>>
    ELSE IF Len(pages) = 1 THEN pages[1].text
    ELSE JoinPages(SubSeq(pages, 1, Len(pages) - 1), separator)
             \o separator \o pages[Len(pages)].text

\* total_words += result.word_count
RECURSIVE TotalWords(_)
TotalWords(pages) ==
    IF pages = <<>> THEN 0
    ELSE pages[1].word_count + TotalWords(Tail(pages))

\* total_confidence += result.confidence * result.word_count
RECURSIVE TotalConfidence(_)
TotalConfidence(pages) ==
    IF pages = <<>> THEN 0
    ELSE pages[1].confidence * pages[1].word_count + TotalConfidence(Tail(pages))

\* TesseractOCR.extract_from_multiple on pages that were all recognised.
\* The confidence is the quotient num / den, kept as a pair.
extract_from_multiple(pages, separator) ==
    IF pages = <<>>
    THEN [t |-> "OCRResult", text |-> <<>>, word_count |-> 0,
          confidence |-> [num |-> 0, den |-> 1]]
    ELSE LET total_words == TotalWords(pages)
         IN  [t |-> "OCRResult",
              text |-> JoinPages(pages, separator),
              word_count |-> total_words,
              confidence |-> IF total_words > 0
                             THEN [num |-> TotalConfidence(pages),
                                   den |-> 100 * total_words]
                             ELSE [num |-> 0, den |-> 1]]

\* The page lists of n pages.
PageLists(n) == [1..n -> PageResults]

\* ExtractionPipeline._extract_text; recognised is the engine's output for
\* every page, or an OCRError when the engine failed on some page.
ExtractText(ocr, recognised) ==
    IF ocr = None
    THEN Exc("RuntimeError", "OCR non disponible (Tesseract non installé)")
    ELSE IF recognised.t = "OCRError" THEN recognised
    ELSE extract_from_multiple(recognised.pages, PageSeparator)

----------------------------------------------------------------------------
(* The backends *)

S_invoice == <<"i", "n", "v", "o", "i", "c", "e">>

S_contract == <<"c", "o", "n", "t", "r", "a", "c", "t">>

S_unknown == <<"u", "n", "k", "n", "o", "w", "n">>

KwFacture == <<"f", "a", "c", "t", "u", "r", "e">>

KwTtc == <<"t", "t", "c">>

KwTva == <<"t", "v", "a">>

KwMontant == <<"m", "o", "n", "t", "a", "n", "t", " ", "à", " ", "p", "a", "y", "e", "r">>

KwContrat == <<"c", "o", "n", "t", "r", "a", "t">>

KwParties == <<"p", "a", "r", "t", "i", "e", "s">>

KwSignataires == <<"s", "i", "g", "n", "a", "t", "a", "i", "r", "e", "s">>

KwTypeDeDocument == <<"t", "y", "p", "e", " ", "d", "e", " ", "d", "o", "c", "u", "m", "e", "n", "t">>

KwTypeColon == <<"t", "y", "p", "e", ":">>

KwReponds == <<"r", "é", "p", "o", "n", "d", "s", " ", "u", "n", "i", "q", "u", "e", "m", "e", "n", "t">>

KwExtrais == <<"e", "x", "t", "r", "a", "i", "s">>

\* The keywords MockLLMClient.generate looks for that each prompt template of
\* prompts.py holds (lower-cased), whatever text is put into it.
TemplateKeywords(template) ==
    CASE template = "classification" ->
             {KwTypeDeDocument, KwTypeColon, KwReponds, KwFacture, KwContrat,
              S_invoice, S_contract}
      [] template = "invoice" -> {KwFacture, KwExtrais, S_invoice}
      [] template = "contract" -> {KwContrat, KwExtrais, S_contract}

\* get_invoice_prompt, get_contract_prompt, get_classification_prompt.
Prompt(template, ocr_text) == [template |-> template, ocr_text |-> ocr_text]

\* `kw in prompt.lower()`
InPromptLower(kw, prompt) ==
    kw \in TemplateKeywords(prompt.template) \/ Contains(Lower(prompt.ocr_text), kw)

\* MockLLMClient._classify_document on the text between the backticks.
MockClassify(prompt) ==
    LET text == Lower(Strip(prompt.ocr_text))
    IN  IF \E kw \in {KwFacture, S_invoice, KwTtc, KwTva, KwMontant} :
               Contains(text, kw)
        THEN S_invoice
        ELSE IF \E kw \in {KwContrat, S_contract, KwParties, KwSignataires} :
               Contains(text, kw)
        THEN S_contract
        ELSE S_unknown

\* MockLLMClient.generate with simulate_errors off: a label, or the JSON
\* text of an invoice or of a contract.
MockGenerate(prompt) ==
    IF \E kw \in {KwTypeDeDocument, KwTypeColon, KwReponds} : InPromptLower(kw, prompt)
    THEN [t |-> "str", shape |-> "label", v |-> MockClassify(prompt)]
    ELSE IF InPromptLower(KwFacture, prompt) /\ InPromptLower(KwExtrais, prompt)
    THEN [t |-> "str", shape |-> "invoice_json", v |-> <<>>]
    ELSE IF InPromptLower(KwContrat, prompt) /\ InPromptLower(KwExtrais, prompt)
    THEN [t |-> "str", shape |-> "contract_json", v |-> <<>>]
    ELSE IF InPromptLower(S_invoice, prompt) \/ InPromptLower(KwFacture, prompt)
    THEN [t |-> "str", shape |-> "invoice_json", v |-> <<>>]
    ELSE IF InPromptLower(S_contract, prompt) \/ InPromptLower(KwContrat, prompt)
    THEN [t |-> "str", shape |-> "contract_json", v |-> <<>>]
    ELSE [t |-> "str", shape |-> "empty_json", v |-> <<>>]

\* MockLLMClient.generate_json: json.loads of the generated text.
MockGenerateJson(prompt) ==
    LET response == MockGenerate(prompt)
    IN  IF response.shape = "label"
        THEN Exc("JSONDecodeError", "Expecting value: line 1 column 1 (char 0)")
        ELSE [t |-> "dict", shape |-> response.shape]

AnsInvoicePadded == <<" ", "I", "n", "v", "o", "i", "c", "e", "\n">>

AnsContractUpper == <<"C", "O", "N", "T", "R", "A", "C", "T">>

AnsInvoices == <<"i", "n", "v", "o", "i", "c", "e", "s">>

AnsBlank == <<" ">>

\* What VertexAIClient.generate can do on a classification prompt: answer
\* with some text, or raise LLMClientError.
LiveGenerateReplies ==
    {[t |-> "str", shape |-> "label", v |-> a] :
        a \in {S_invoice, AnsInvoicePadded, AnsContractUpper, AnsInvoices,
               KwFacture, AnsBlank}}
    \cup {Exc("LLMClientError", "Erreur lors de la génération: timeout")}

\* What VertexAIClient.generate_json can do: return a JSON object, return a
\* JSON value that is no object, or raise LLMClientError (transport failure
\* or invalid JSON).
LiveGenerateJsonReplies ==
    {[t |-> "dict", shape |-> "live_json"],
     [t |-> "list", shape |-> "live_json"],
     Exc("LLMClientError", "Erreur lors de la génération: timeout"),
     Exc("LLMClientError", "La réponse n'est pas un JSON valide: Expecting value")}

\* What the client does when asked to generate: the simulation backend is a
\* function of the prompt, the live one is the environment's choice.
GenerateReplies(client, prompt) ==
    IF client = "MockLLMClient" THEN {MockGenerate(prompt)} ELSE LiveGenerateReplies

GenerateJsonReplies(client, prompt) ==
    IF client = "MockLLMClient" THEN {MockGenerateJson(prompt)}
    ELSE LiveGenerateJsonReplies

----------------------------------------------------------------------------
(* Classifier and extractors *)

ExceptionClasses ==
    {"FileNotFoundError", "ValueError", "PDFConversionError",
     "UnidentifiedImageError", "cv2.error", "RuntimeError", "OCRError",
     "ExtractionError", "LLMClientError", "JSONDecodeError", "AttributeError",
     "TypeError", "OverflowError", "InvalidOperation", "ValidationError",
     "IndexError", "KeyError", "Exception"}

IsExc(x) == x.t \in ExceptionClasses

\* DocumentClassifier.classify asks the backend unless the text is blank.
ClassifyCallsBackend(ocr_text) == ~IsBlank(ocr_text)

\* A classify that compares the answer without lower-casing it.
Classify_CaseSensitive(ocr_text, reply) ==
    IF IsBlank(ocr_text) THEN Str("unknown")
    ELSE IF IsExc(reply) THEN Str("unknown")
    ELSE LET label == Strip(reply.v)
         IN  IF label = S_invoice THEN Str("invoice")
             ELSE IF label = S_contract THEN Str("contract")
             ELSE Str("unknown")

\* DocumentClassifier.classify; reply is what the backend's generate did.
Classify(ocr_text, reply) ==
    IF IsBlank(ocr_text) THEN Str("unknown")
    ELSE IF IsExc(reply) THEN Str("unknown")
    ELSE LET label == Lower(Strip(reply.v))
         IN  IF label = S_invoice THEN Str("invoice")
             ELSE IF label = S_contract THEN Str("contract")
             ELSE Str("unknown")

\* InvoiceExtractor.extract and ContractExtractor.extract ask the backend
\* unless the text is blank.
ExtractCallsBackend(ocr_text) == ~IsBlank(ocr_text)

\* InvoiceExtractor.extract (record = "Invoice") and ContractExtractor.extract
\* (record = "Contract"); reply is what the backend's generate_json did.
Extract(record, ocr_text, reply) ==
    IF IsBlank(ocr_text) THEN Exc("ExtractionError", "Texte OCR vide")
    ELSE IF reply.t = "LLMClientError"
    THEN Exc("ExtractionError", "Erreur LLM: " \o reply.msg)
    ELSE IF IsExc(reply)
    THEN Exc("ExtractionError", "Erreur lors de l'extraction: " \o reply.msg)
    ELSE IF reply.t # "dict"
    THEN Exc("ExtractionError",
             "Erreur lors de l'extraction: 'list' object has no attribute 'get'")
    ELSE [t |-> record, raw_text |-> ocr_text, extraction_method |-> "llm",
          source |-> reply.shape]

\* ExtractionPipeline._extract_structured_data: the extractor for the type,
\* None when the type is not supported.
ExtractorFor(document_type) ==
    IF document_type = Str("invoice") THEN "invoice_extractor"
    ELSE IF document_type = Str("contract") THEN "contract_extractor"
    ELSE "none"

\* ExtractionPipeline._extract_structured_data.
ExtractStructuredData(ocr_text, document_type, reply) ==
    IF document_type = Str("invoice") THEN Extract("Invoice", ocr_text, reply)
    ELSE IF document_type = Str("contract") THEN Extract("Contract", ocr_text, reply)
    ELSE Exc("ValueError", "Type de document non supporté: " \o document_type.v)

----------------------------------------------------------------------------
(* One process call *)

\* A try block that runs a stage again when it raised.
NextStage_Retry(stage, outcome, document_type) ==
    IF IsExc(outcome) THEN stage
    ELSE CASE stage = "Preprocessing" -> "TextExtraction"
           [] stage = "TextExtraction" ->
                  IF document_type = None THEN "Classification"
                  ELSE "StructuredExtraction"
           [] stage = "Classification" -> "StructuredExtraction"
           [] stage = "StructuredExtraction" -> "Done"

\* A try block that classifies whether or not a type was given.
NextStage_AlwaysClassify(stage, outcome, document_type) ==
    IF IsExc(outcome) THEN "Failure"
    ELSE CASE stage = "Preprocessing" -> "TextExtraction"
           [] stage = "TextExtraction" -> "Classification"
           [] stage = "Classification" -> "StructuredExtraction"
           [] stage = "StructuredExtraction" -> "Done"

\* The try block of process_file and process_bytes: where control goes when
\* a stage has returned outcome.
NextStage(stage, outcome, document_type) ==
    IF IsExc(outcome) THEN "Failure"
    ELSE CASE stage = "Preprocessing" -> "TextExtraction"
           [] stage = "TextExtraction" ->
                  IF document_type = None THEN "Classification"
                  ELSE "StructuredExtraction"
           [] stage = "Classification" -> "StructuredExtraction"
           [] stage = "StructuredExtraction" -> "Done"

\* `except Exception`
Caught(e) == e.t \in ExceptionClasses

\* The ExtractionResult of the return statement that ends the try block.
SuccessResult(c) ==
    [t |-> "ExtractionResult", document_type |-> c.document_type,
     data |-> c.data, ocr_result |-> c.ocr_result, success |-> TRUE,
     error_message |-> None]

\* An except clause that hands back the OCR result computed before the
\* failure.
FailureResult_KeepsOcr(c) ==
    [t |-> "ExtractionResult",
     document_type |-> IF Truthy(c.document_type) THEN c.document_type
                       ELSE Str("unknown"),
     data |-> None, ocr_result |-> c.ocr_result, success |-> FALSE,
     error_message |-> Str(c.exc.msg)]

\* The ExtractionResult of the except clause.
FailureResult(c) ==
    [t |-> "ExtractionResult",
     document_type |-> IF Truthy(c.document_type) THEN c.document_type
                       ELSE Str("unknown"),
     data |-> None, ocr_result |-> None, success |-> FALSE,
     error_message |-> Str(c.exc.msg)]

NoCall ==
    [entry |-> "none", filename |-> "", exists |-> FALSE, content |-> "none",
     arg_document_type |-> None, document_type |-> None,
     images |-> None, ocr_result |-> None, data |-> None, exc |-> None,
     classify_reply |-> None, classified |-> None]

NewPipeline ==
    [use_mock |-> FALSE, pdf_converter |-> None, image_enhancer |-> None,
     ocr |-> None, llm_client |-> "None", invoice_extractor |-> "None",
     contract_extractor |-> "None", classifier |-> "None"]

Init ==
    /\ pc = "New"
    /\ self \in {[NewPipeline EXCEPT !.use_mock = m] : m \in BOOLEAN}
    /\ live = [ctor_calls |-> 0, probe_calls |-> 0, initialized |-> FALSE]
    /\ call = NoCall
    /\ stages = <<>>
    /\ llm_log = <<>>
    /\ result = None
    /\ history = [calls |-> 0, failed |-> 0, succeeded |-> 0]
    /\ extraction = None
    /\ enhancement = None
    /\ ocr_run = None
    /\ evaluation = None

\* ExtractionPipeline.__init__: _init_preprocessing, _init_ocr, _init_llm.
\* TesseractOCR() raises when the executable is found but cannot be run
\* ("broken"); nothing catches that and no pipeline exists.
Construct ==
    /\ pc = "New"
    /\ \E tesseract \in {"ok", "missing", "broken"}, ctor_raises \in BOOLEAN,
          initialize_ok \in BOOLEAN :
        IF tesseract = "broken"
        THEN /\ pc' = "ConstructFailed"
             /\ self' = [self EXCEPT !.pdf_converter = [t |-> "PDFConverter"],
                                     !.image_enhancer = [t |-> "ImageEnhancer"]]
             /\ live' = live
        ELSE LET client == InitLlm(self.use_mock, ctor_raises, initialize_ok)
                 probed == ~self.use_mock /\ ~ctor_raises
             IN  /\ pc' = "Idle"
                 /\ self' = [self EXCEPT !.pdf_converter = [t |-> "PDFConverter"],
                                         !.image_enhancer = [t |-> "ImageEnhancer"],
                                         !.ocr = InitOcr(tesseract),
                                         !.llm_client = client,
                                         !.invoice_extractor = client,
                                         !.contract_extractor = client,
                                         !.classifier = client]
                 /\ live' = [ctor_calls |-> IF self.use_mock THEN 0 ELSE 1,
                             probe_calls |-> IF probed THEN 1 ELSE 0,
                             initialized |-> probed /\ initialize_ok]
    /\ UNCHANGED <<call, stages, llm_log, result, history, extraction, ocr_run, evaluation, enhancement>>

----------------------------------------------------------------------------
(* The stages of a process call.  Each is one step of the caller; the     *)
(* locals of a finished call stay readable until the next call starts.    *)

\* process_file up to the first stage: the arguments are bound and the
\* existence of the path is checked inside the try block.
StartProcessFile ==
    /\ pc = "Idle"
    /\ history.calls < MaxCalls
    /\ \E filename \in FileNames, exists \in BOOLEAN, document_type \in DocTypeArgs :
       \E content \in IF exists THEN FileContents ELSE {"none"} :
         LET exc == IF exists THEN None
                    ELSE Exc("FileNotFoundError", "Fichier non trouvé: " \o filename)
         IN  /\ call' = [NoCall EXCEPT !.entry = "process_file",
                                       !.filename = filename,
                                       !.exists = exists,
                                       !.content = content,
                                       !.arg_document_type = document_type,
                                       !.document_type = document_type,
                                       !.exc = exc]
             /\ pc' = IF exists THEN "Preprocessing" ELSE "Failure"
    /\ stages' = <<>>
    /\ llm_log' = <<>>
    /\ result' = None
    /\ history' = [history EXCEPT !.calls = @ + 1]
    /\ UNCHANGED <<self, live, extraction, ocr_run, evaluation, enhancement>>

\* process_bytes up to the first stage.
StartProcessBytes ==
    /\ pc = "Idle"
    /\ history.calls < MaxCalls
    /\ \E filename \in FileNames, content \in BytesContents,
          document_type \in DocTypeArgs :
         call' = [NoCall EXCEPT !.entry = "process_bytes",
                                !.filename = filename,
                                !.exists = TRUE,
                                !.content = content,
                                !.arg_document_type = document_type,
                                !.document_type = document_type]
    /\ pc' = "Preprocessing"
    /\ stages' = <<>>
    /\ llm_log' = <<>>
    /\ result' = None
    /\ history' = [history EXCEPT !.calls = @ + 1]
    /\ UNCHANGED <<self, live, extraction, ocr_run, evaluation, enhancement>>

\* Stage 1 of process_file: images = self._preprocess(file_path).
PreprocessingFile ==
    /\ pc = "Preprocessing"
    /\ call.entry = "process_file"
    /\ \E n \in 1..MaxPages :
         LET outcome == Preprocess(call.filename, call.content, n)
         IN  /\ call' = [call EXCEPT !.images = IF IsExc(outcome) THEN None ELSE outcome,
                                     !.exc = IF IsExc(outcome) THEN outcome ELSE None]
             /\ pc' = NextStage("Preprocessing", outcome, call.document_type)
    /\ stages' = Append(stages, "Preprocessing")
    /\ UNCHANGED <<self, live, llm_log, result, history, extraction, ocr_run, evaluation, enhancement>>

\* Stage 1 of process_bytes: conversion or decoding, then enhance_batch.
PreprocessingBytes ==
    /\ pc = "Preprocessing"
    /\ call.entry = "process_bytes"
    /\ \E n \in 1..MaxPages :
         LET outcome == PreprocessBytes(call.filename, call.content, n)
         IN  /\ call' = [call EXCEPT !.images = IF IsExc(outcome) THEN None ELSE outcome,
                                     !.exc = IF IsExc(outcome) THEN outcome ELSE None]
             /\ pc' = NextStage("Preprocessing", outcome, call.document_type)
    /\ stages' = Append(stages, "Preprocessing")
    /\ UNCHANGED <<self, live, llm_log, result, history, extraction, ocr_run, evaluation, enhancement>>

\* Stage 2: ocr_result = self._extract_text(images).
TextExtraction ==
    /\ pc = "TextExtraction"
    /\ \E recognised \in
           IF self.ocr = None THEN {None}
           ELSE {[t |-> "pages", pages |-> p] : p \in PageLists(call.images.n)}
                \cup {Exc("OCRError", "Erreur Tesseract")} :
         LET outcome == ExtractText(self.ocr, recognised)
         IN  /\ call' = [call EXCEPT !.ocr_result = IF IsExc(outcome) THEN None
                                                    ELSE outcome,
                                     !.exc = IF IsExc(outcome) THEN outcome ELSE None]
             /\ pc' = NextStage("TextExtraction", outcome, call.document_type)
    /\ stages' = Append(stages, "TextExtraction")
    /\ UNCHANGED <<self, live, llm_log, result, history, extraction, ocr_run, evaluation, enhancement>>

\* Stage 3, entered only when no type was given:
\* document_type = self.classifier.classify(ocr_result.text).
Classification ==
    /\ pc = "Classification"
    /\ LET text == call.ocr_result.text
           asks == ClassifyCallsBackend(text)
       IN  /\ \E reply \in IF asks
                           THEN GenerateReplies(self.classifier,
                                                Prompt("classification", text))
                           ELSE {None} :
                 LET label == Classify(text, reply)
                 IN  /\ call' = [call EXCEPT !.document_type = label,
                                             !.classify_reply = reply,
                                             !.classified = label]
                     /\ pc' = NextStage("Classification", label, label)
           /\ llm_log' = IF asks
                         THEN Append(llm_log, [by |-> "classifier",
                                               method |-> "generate",
                                               client |-> self.classifier])
                         ELSE llm_log
    /\ stages' = Append(stages, "Classification")
    /\ UNCHANGED <<self, live, result, history, extraction, ocr_run, evaluation, enhancement>>

\* Stage 4: data = self._extract_structured_data(ocr_result.text, document_type).
StructuredExtraction ==
    /\ pc = "StructuredExtraction"
    /\ LET text == call.ocr_result.text
           extractor == ExtractorFor(call.document_type)
           asks == extractor # "none" /\ ExtractCallsBackend(text)
           client == IF extractor = "invoice_extractor" THEN self.invoice_extractor
                     ELSE self.contract_extractor
           template == IF extractor = "invoice_extractor" THEN "invoice"
                       ELSE "contract"
       IN  /\ \E reply \in IF asks
                           THEN GenerateJsonReplies(client, Prompt(template, text))
                           ELSE {None} :
                 LET outcome == ExtractStructuredData(text, call.document_type, reply)
                 IN  /\ call' = [call EXCEPT !.data = IF IsExc(outcome) THEN None
                                                      ELSE outcome,
                                             !.exc = IF IsExc(outcome) THEN outcome
                                                     ELSE None]
                     /\ pc' = NextStage("StructuredExtraction", outcome,
                                        call.document_type)
           /\ llm_log' = IF asks
                         THEN Append(llm_log, [by |-> extractor,
                                               method |-> "generate_json",
                                               client |-> client])
                         ELSE llm_log
    /\ stages' = Append(stages, "StructuredExtraction")
    /\ UNCHANGED <<self, live, result, history, extraction, ocr_run, evaluation, enhancement>>

\* The return statement at the end of the try block.
ReturnSuccess ==
    /\ pc = "Done"
    /\ result' = SuccessResult(call)
    /\ pc' = "Idle"
    /\ history' = [history EXCEPT !.succeeded = @ + 1]
    /\ UNCHANGED <<self, live, call, stages, llm_log, extraction, ocr_run, evaluation, enhancement>>

\* An except clause that also switches the pipeline and its components to
\* the simulation backend when the live backend failed the document.
ReturnFailure_SwitchesBackend ==
    /\ pc = "Failure"
    /\ result' = FailureResult(call)
    /\ pc' = "Idle"
    /\ history' = [history EXCEPT !.failed = @ + 1]
    /\ self' = IF call.exc.t = "ExtractionError"
               THEN [self EXCEPT !.llm_client = "MockLLMClient",
                                 !.classifier = "MockLLMClient",
                                 !.invoice_extractor = "MockLLMClient",
                                 !.contract_extractor = "MockLLMClient"]
               ELSE self
    /\ UNCHANGED <<live, call, stages, llm_log, extraction, ocr_run, evaluation, enhancement>>

\* An except clause that gives up on OCR after an OCR failure.
ReturnFailure_DisablesOcr ==
    /\ pc = "Failure"
    /\ result' = FailureResult(call)
    /\ pc' = "Idle"
    /\ history' = [history EXCEPT !.failed = @ + 1]
    /\ self' = IF call.exc.t = "OCRError" THEN [self EXCEPT !.ocr = None] ELSE self
    /\ UNCHANGED <<live, call, stages, llm_log, extraction, ocr_run, evaluation, enhancement>>

\* The except clause: the exception is turned into a failed result; an
\* exception the clause does not catch leaves the call.
ReturnFailure ==
    /\ pc = "Failure"
    /\ IF Caught(call.exc)
       THEN /\ result' = FailureResult(call)
            /\ pc' = "Idle"
       ELSE /\ result' = None
            /\ pc' = "Propagated"
    /\ history' = [history EXCEPT !.failed = @ + 1]
    /\ UNCHANGED <<self, live, call, stages, llm_log, extraction, ocr_run, evaluation, enhancement>>

Next ==
    \/ Construct
    \/ StartProcessFile
    \/ StartProcessBytes
    \/ PreprocessingFile
    \/ PreprocessingBytes
    \/ TextExtraction
    \/ Classification
    \/ StructuredExtraction
    \/ ReturnSuccess
    \/ ReturnFailure

Spec == Init /\ [][Next]_vars

----------------------------------------------------------------------------
(* Properties *)

\* A call has returned its result and no other call has started.
Returned == pc = "Idle" /\ call.entry # "none" /\ result # None

\* The number of times stage was invoked by the call.
Invocations(stage) == Cardinality({i \in 1..Len(stages) : stages[i] = stage})

\* The backend calls the component made during the call.
CallsBy(component) == {i \in 1..Len(llm_log) : llm_log[i].by = component}

\* C1: every returned ExtractionResult is all-or-nothing: success exactly
\* when data and ocr_result are both set and error_message is None, failure
\* exactly when data and ocr_result are both None and error_message is set;
\* an OCR result computed before a later stage failed is not returned.
C1_AllOrNothing ==
    result # None =>
        /\ result.success = TRUE <=>
               (result.data # None /\ result.ocr_result # None
                /\ result.error_message = None)
        /\ result.success = FALSE <=>
               (result.data = None /\ result.ocr_result = None
                /\ result.error_message # None)

\* A failed result of a call whose OCR stage had succeeded.
C1_Witness ==
    /\ Returned
    /\ result.success = FALSE
    /\ call.ocr_result # None
    /\ result.ocr_result = None

\* The extension of the name is none of those is_pdf and is_image accept.
UnsupportedExtension(filename) ==
    SuffixLower(filename) \notin
        {".pdf", ".png", ".jpg", ".jpeg", ".tiff", ".tif", ".bmp"}

\* C2: process_file and process_bytes never let an exception out, and a
\* missing file, an unsupported extension or an exception raised by a stage
\* makes the call return a failed result whose error_message is the message
\* of the exception that stopped the pipeline.
C2_FailuresAreReturned ==
    /\ pc # "Propagated"
    /\ Returned =>
           ((~call.exists \/ UnsupportedExtension(call.filename) \/ call.exc # None)
               => /\ result.success = FALSE
                  /\ call.exc # None
                  /\ result.error_message = Str(call.exc.msg))

StageNames == {"Preprocessing", "TextExtraction", "Classification",
               "StructuredExtraction"}

\* The stage sequences a call can have invoked.
StagePrefixes ==
    {<<>>,
     <<"Preprocessing">>,
     <<"Preprocessing", "TextExtraction">>,
     <<"Preprocessing", "TextExtraction", "Classification">>,
     <<"Preprocessing", "TextExtraction", "StructuredExtraction">>,
     <<"Preprocessing", "TextExtraction", "Classification",
       "StructuredExtraction">>}

\* A step that invokes a stage: it is the stage the caller stands at, no
\* exception is pending, and it is added to the stages already invoked.
InvokesInOrder ==
    (stages' # stages /\ stages' # <<>>) =>
        /\ call.exc = None
        /\ pc \in StageNames
        /\ stages' = Append(stages, pc)
        /\ stages' \in StagePrefixes

\* C3: within one call the stages run in the order Preprocessing,
\* TextExtraction, Classification (optional), StructuredExtraction, each at
\* most once; a stage starts only after the previous one completed without
\* an exception, and after a failure no stage is invoked.
C3_StagesInOrder ==
    /\ [](stages \in StagePrefixes)
    /\ [](call.exc # None => pc \notin StageNames)
    /\ [][InvokesInOrder]_vars

\* A call that went through all four stages, in order, and succeeded.
C3_Witness ==
    /\ Returned
    /\ stages = <<"Preprocessing", "TextExtraction", "Classification",
                  "StructuredExtraction">>
    /\ result.success = TRUE

\* The place of stage in the stages invoked, 0 when it was not invoked.
Position(stage) ==
    IF \E i \in 1..Len(stages) : stages[i] = stage
    THEN CHOOSE i \in 1..Len(stages) : stages[i] = stage
    ELSE 0

\* C4 as stated: the classifier runs exactly when no type was supplied: with
\* an explicit type it is never invoked and the returned type is the
\* supplied one; with None it is invoked exactly once, after OCR and before
\* structured extraction.
C4_ClassifiesIffNoType ==
    Returned =>
        /\ call.arg_document_type # None =>
               /\ Invocations("Classification") = 0
               /\ result.document_type = call.arg_document_type
        /\ call.arg_document_type = None =>
               /\ Invocations("Classification") = 1
               /\ Position("TextExtraction") # 0
               /\ Position("TextExtraction") < Position("Classification")
               /\ Position("Classification") < Position("StructuredExtraction")

\* C4 as amended: with an explicit type the classifier is never invoked and
\* the returned type is the supplied one, except that a supplied empty
\* string is returned as "unknown"; with None the classifier is invoked
\* exactly once, after OCR and before structured extraction, when
\* preprocessing and OCR succeeded, and not at all when one of them failed.
C4_ClassifiesIffNoTypeAndOcrDone ==
    /\ call.arg_document_type # None => Invocations("Classification") = 0
    /\ Returned =>
        /\ call.arg_document_type # None =>
               result.document_type =
                   IF call.arg_document_type = Str("") THEN Str("unknown")
                   ELSE call.arg_document_type
        /\ (call.arg_document_type = None /\ call.ocr_result # None) =>
               /\ Invocations("Classification") = 1
               /\ Position("TextExtraction") # 0
               /\ Position("TextExtraction") < Position("Classification")
               /\ Position("Classification") < Position("StructuredExtraction")
        /\ (call.arg_document_type = None /\ call.ocr_result = None) =>
               Invocations("Classification") = 0

\* A call without a type that classified the text once and succeeded with
\* the detected type.
C4_Witness ==
    /\ Returned
    /\ call.arg_document_type = None
    /\ Invocations("Classification") = 1
    /\ result.success = TRUE
    /\ result.document_type = call.classified

\* The live backend was preferred and either its construction raised or
\* its availability probe reported it unavailable.
FellBack == live.ctor_calls = 1 /\ ~live.initialized

\* C5: when the live backend is preferred and its construction raises or
\* its probe reports it unavailable, construction still succeeds with the
\* simulation backend installed for the classifier and both extractors, and
\* every later call whose stages raise nothing returns success.
C5_FallbackInstallsSimulation ==
    FellBack =>
        /\ pc \notin {"New", "ConstructFailed", "Propagated"}
        /\ self.llm_client = "MockLLMClient"
        /\ self.classifier = "MockLLMClient"
        /\ self.invoice_extractor = "MockLLMClient"
        /\ self.contract_extractor = "MockLLMClient"
        /\ \A i \in 1..Len(llm_log) : llm_log[i].client = "MockLLMClient"
        /\ (Returned /\ call.exc = None) => result.success = TRUE

\* After a fallback caused by a failed probe, a call used the simulation
\* backend for classification and extraction and succeeded.
C5_Witness ==
    /\ FellBack
    /\ live.probe_calls = 1
    /\ Returned
    /\ result.success = TRUE
    /\ Len(llm_log) = 2

\* A step of a process call.
CallStep == pc \notin {"New", "ConstructFailed"}

\* C6: the backend chosen at construction is fixed: no step of any process
\* call changes the client held by the pipeline, the classifier or the two
\* extractors, every backend call goes to that client, and the live backend
\* is neither constructed nor probed again.
C6_BackendFixed ==
    /\ [][CallStep => /\ self'.llm_client = self.llm_client
                      /\ self'.classifier = self.classifier
                      /\ self'.invoice_extractor = self.invoice_extractor
                      /\ self'.contract_extractor = self.contract_extractor
                      /\ live' = live]_vars
    /\ [](\A i \in 1..Len(llm_log) : llm_log[i].client = self.llm_client)

\* A second call on a pipeline that fell back, made after a failed call,
\* has reached the simulation backend.
C6_Witness ==
    /\ FellBack
    /\ history.calls >= 2
    /\ history.failed >= 1
    /\ Len(llm_log) >= 1

\* C7: a failed document aborts only itself: no step of a call that fails
\* changes a component of the pipeline, and a later call whose stages raise
\* nothing returns success however many earlier calls failed.
C7_FailureIsLocal ==
    /\ [][(CallStep /\ (call'.exc # None \/ pc = "Failure")) => self' = self]_vars
    /\ []((Returned /\ history.failed >= 1 /\ call.exc = None) =>
              (result.success = TRUE /\ result.data # None))

\* A successful call made after a failed call on the same pipeline.
C7_Witness ==
    /\ Returned
    /\ history.failed >= 1
    /\ result.success = TRUE

\* The text has a character that is not white space.
HasInk(text) == \E i \in 1..Len(text) : ~IsSpace(text[i])

\* C8: the classifier's answer is a hint only: when no type is supplied and
\* the text is classified as "unknown" (or wrongly), the call does not end
\* in failure because of the classification result.
C8_ClassificationNotFatal ==
    ~ /\ Returned
      /\ call.arg_document_type = None
      /\ call.classified = Str("unknown")
      /\ HasInk(call.ocr_result.text)
      /\ result.success = FALSE
      /\ call.exc = Exc("ValueError", "Type de document non supporté: unknown")

\* The characters of answer, leading and trailing white space and case
\* left aside, are those of label.
Spells(answer, label) ==
    \E first \in 1..Len(answer) :
        /\ first + Len(label) - 1 <= Len(answer)
        /\ \A i \in 1..Len(answer) :
               IF i >= first /\ i < first + Len(label)
               THEN LowerChar(answer[i]) = label[i - first + 1]
               ELSE IsSpace(answer[i])

\* C9: classify never raises and returns one of "invoice", "contract",
\* "unknown": the recognised label, whatever its case and surrounding white
\* space, when the backend answers "invoice" or "contract"; "unknown" for
\* any other answer, for a backend exception, and for an empty or
\* white-space-only text, for which the backend is not called.
C9_ClassifyTotal ==
    /\ (stages # <<>> /\ stages[Len(stages)] = "Classification") =>
           (call.exc = None /\ pc = "StructuredExtraction")
    /\ call.classified # None =>
        LET text == call.ocr_result.text
            reply == call.classify_reply
        IN  /\ call.classified \in {Str("invoice"), Str("contract"), Str("unknown")}
            /\ ~HasInk(text) =>
                   /\ call.classified = Str("unknown")
                   /\ CallsBy("classifier") = {}
            /\ HasInk(text) =>
                   /\ Cardinality(CallsBy("classifier")) = 1
                   /\ call.classified =
                          IF reply.t = "str" /\ Spells(reply.v, S_invoice)
                          THEN Str("invoice")
                          ELSE IF reply.t = "str" /\ Spells(reply.v, S_contract)
                          THEN Str("contract")
                          ELSE Str("unknown")

\* The live backend answered "CONTRACT" in capitals and the text was
\* classified as a contract.
C9_Witness ==
    /\ call.classified = Str("contract")
    /\ call.classify_reply.t = "str"
    /\ call.classify_reply.v = AnsContractUpper

\* The call has run structured extraction with a supported type.
Extracted ==
    /\ Invocations("StructuredExtraction") = 1
    /\ pc \in {"Done", "Failure", "Idle"}
    /\ call.document_type \in {Str("invoice"), Str("contract")}

\* C10: InvoiceExtractor.extract and ContractExtractor.extract fail with
\* ExtractionError ("Texte OCR vide") whenever the text is empty or holds
\* white space only, and the backend is then never invoked.
C10_BlankTextRejected ==
    (Extracted /\ ~HasInk(call.ocr_result.text)) =>
        /\ call.exc = Exc("ExtractionError", "Texte OCR vide")
        /\ call.data = None
        /\ CallsBy("invoice_extractor") = {}
        /\ CallsBy("contract_extractor") = {}

\* The contract extractor was given the white-space-only text of two empty
\* pages and rejected it.
C10_Witness ==
    /\ Extracted
    /\ call.document_type = Str("contract")
    /\ call.ocr_result.text = PageSeparator
    /\ call.exc = Exc("ExtractionError", "Texte OCR vide")

----------------------------------------------------------------------------
(* Values of a backend response: JSON null is None, a JSON string is a    *)
(* Python str kept as its characters, a JSON number an int or a float     *)
(* (kept in tenths), a JSON array a list and a JSON object a dict, which  *)
(* is a function from the keys that are present.                          *)

Text(chars) == [t |-> "str", v |-> chars]

PyInt(n) == [t |-> "int", v |-> n]

PyFloat(tenths) == [t |-> "float", tenths |-> tenths]

\* dict.get(key, default)
Get(d, key, default) == IF key \in DOMAIN d THEN d[key] ELSE default

DigitChars == <<"0", "1", "2", "3", "4", "5", "6", "7", "8", "9">>

IsDigit(c) == \E i \in 1..10 : DigitChars[i] = c

DigitValue(c) == (CHOOSE i \in 1..10 : DigitChars[i] = c) - 1

\* The value of a run of decimal digits short enough to be computed.
RECURSIVE DigitsValue(_)
DigitsValue(s) ==
    IF s = <<>> THEN 0
    ELSE 10 * DigitsValue(SubSeq(s, 1, Len(s) - 1)) + DigitValue(s[Len(s)])

\* A run of digits without its leading zeros.
RECURSIVE Significant(_)
Significant(s) ==
    IF s # <<>> /\ s[1] = "0" THEN Significant(Tail(s)) ELSE s

\* The largest value a C int holds and the value of its first nine digits.
C_INT_MAX == 2147483647

C_INT_MAX_DIV_10 == 214748364

\* Whether the number that digits without leading zeros spell is greater
\* than C_INT_MAX.
ExceedsCInt(sig) ==
    \/ Len(sig) > 10
    \/ /\ Len(sig) = 10
       /\ \/ DigitsValue(SubSeq(sig, 1, 9)) > C_INT_MAX_DIV_10
          \/ /\ DigitsValue(SubSeq(sig, 1, 9)) = C_INT_MAX_DIV_10
             /\ DigitValue(sig[10]) > C_INT_MAX % 10

\* int(s) once the surrounding whitespace is dropped: what is left has to be
\* digits.  A Python int has no width; one that no C int holds is kept as
\* the digits it was read from.
IntOfStripped(digits) ==
    IF digits = <<>> \/ \E i \in 1..Len(digits) : ~IsDigit(digits[i])
    THEN Exc("ValueError", "invalid literal for int() with base 10")
    ELSE IF ExceedsCInt(Significant(digits))
    THEN [t |-> "int", digits |-> Significant(digits)]
    ELSE PyInt(DigitsValue(Significant(digits)))

\* int(s) for a str.
int(s) == IntOfStripped(Strip(s))

\* str.replace(old, new) for a one-character old.
RECURSIVE Replace(_, _, _)
Replace(s, old, new) ==
    IF s = <<>> THEN <<>>
    ELSE (IF s[1] = old THEN new ELSE <<s[1]>>) \o Replace(Tail(s), old, new)

\* str.split(sep) for a one-character sep.
RECURSIVE Split(_, _)
Split(s, sep) ==
    IF \A i \in 1..Len(s) : s[i] # sep THEN <<s>>
    ELSE LET k == SetMin({i \in 1..Len(s) : s[i] = sep})
         IN  <<SubSeq(s, 1, k - 1)>> \o Split(SubSeq(s, k + 1, Len(s)), sep)

----------------------------------------------------------------------------
(* Dates and amounts of a response: BaseExtractor._parse_date and         *)
(* BaseExtractor._parse_decimal                                           *)

IsLeap(year) == year % 4 = 0 /\ (year % 100 # 0 \/ year % 400 = 0)

DaysInMonth(year, month) ==
    IF month = 2 THEN (IF IsLeap(year) THEN 29 ELSE 28)
    ELSE IF month \in {4, 6, 9, 11} THEN 30 ELSE 31

\* datetime.date(year, month, day) on Python ints: the arguments are first
\* converted to C ints, then checked against the calendar.
date(year, month, day) ==
    IF \E a \in {year, month, day} : "digits" \in DOMAIN a
    THEN Exc("OverflowError", "signed integer is greater than maximum")
    ELSE IF year.v < 1 \/ year.v > 9999
    THEN Exc("ValueError", "year is out of range")
    ELSE IF month.v < 1 \/ month.v > 12
    THEN Exc("ValueError", "month must be in 1..12")
    ELSE IF day.v < 1 \/ day.v > DaysInMonth(year.v, month.v)
    THEN Exc("ValueError", "day is out of range for month")
    ELSE [t |-> "date", year |-> year.v, month |-> month.v, day |-> day.v]

\* How date.fromisoformat reports a date the calendar does not have.
InvalidIsoformat(d) ==
    IF IsExc(d) THEN Exc("ValueError", "Invalid isoformat string") ELSE d

\* date.fromisoformat on a str of the form YYYY-MM-DD; every other str the
\* responses of this model hold is rejected with ValueError.
fromisoformat(s) ==
    IF /\ Len(s) = 10
       /\ s[5] = "-" /\ s[8] = "-"
       /\ \A i \in {1, 2, 3, 4, 6, 7, 9, 10} : IsDigit(s[i])
    THEN InvalidIsoformat(date(int(SubSeq(s, 1, 4)), int(SubSeq(s, 6, 7)),
                               int(SubSeq(s, 9, 10))))
    ELSE Exc("ValueError", "Invalid isoformat string")

\* Lines 53 to 56 of _parse_date: the three parts as numbers, the year
\* first when the first part has four characters and last otherwise.
DateOfNumbers(parts, first, second, third) ==
    IF IsExc(first) \/ IsExc(second) \/ IsExc(third)
    THEN Exc("ValueError", "invalid literal for int() with base 10")
    ELSE IF Len(parts[1]) = 4 THEN date(first, second, third)
    ELSE date(third, second, first)

\* Lines 52 to 56 of _parse_date: None when there are not three parts.
DateOfParts(parts) ==
    IF Len(parts) # 3 THEN None
    ELSE DateOfNumbers(parts, int(parts[1]), int(parts[2]), int(parts[3]))

\* The second try block of _parse_date: the value split at "/" and "-".
\* What it returns, None when it falls through, or what it raises.
DateFromParts(s) == DateOfParts(Split(Replace(s, "-", <<"/">>), "/"))

\* `except (ValueError, IndexError): pass`, after which None is returned;
\* any other exception leaves _parse_date.
ExceptValueOrIndexError(d) ==
    IF IsExc(d) /\ d.t \in {"ValueError", "IndexError"} THEN None ELSE d

\* The two try blocks of _parse_date for a str: iso is what the first did.
DateOfStr(iso, s) ==
    IF ~IsExc(iso) THEN iso ELSE ExceptValueOrIndexError(DateFromParts(s))

\* BaseExtractor._parse_date: a date, None, or the exception that leaves it.
parse_date(value) ==
    IF value = None THEN None
    ELSE IF value.t = "date" THEN value
    ELSE IF value.t = "str" THEN DateOfStr(fromisoformat(value.v), value.v)
    ELSE None

\* str(n) for an int n >= 0.
RECURSIVE IntToStr(_)
IntToStr(n) ==
    IF n < 10 THEN <<DigitChars[n + 1]>>
    ELSE IntToStr(n \div 10) \o <<DigitChars[(n % 10) + 1]>>

\* str(value): a str is itself, 1200 gives "1200", the float 1200.5 gives
\* "1200.5" and True gives "True".
str(value) ==
    CASE value.t = "str" -> value.v
      [] value.t = "int" -> IntToStr(value.v)
      [] value.t = "float" ->
             IntToStr(value.tenths \div 10) \o <<".">> \o IntToStr(value.tenths % 10)
      [] value.t = "bool" -> IF value.v THEN <<"T", "r", "u", "e">>
                             ELSE <<"F", "a", "l", "s", "e">>

\* Decimal(s) once the surrounding whitespace is dropped: an optional sign,
\* then digits with at most one period among them; anything else the
\* responses of this model hold (they hold no exponent and no NaN or
\* Infinity) is decimal.InvalidOperation.  The value is
\* sign * coefficient * 10^-places, as Decimal keeps it.
DecimalOfStripped(num) ==
    LET signed == num # <<>> /\ num[1] \in {"+", "-"}
        abs == IF signed THEN Tail(num) ELSE num
        dots == {i \in 1..Len(abs) : abs[i] = "."}
        digits == Replace(abs, ".", <<>>)
    IN  IF \/ digits = <<>>
           \/ Cardinality(dots) > 1
           \/ \E i \in 1..Len(digits) : ~IsDigit(digits[i])
        THEN Exc("InvalidOperation", "[<class 'decimal.ConversionSyntax'>]")
        ELSE [t |-> "Decimal",
              negative |-> signed /\ num[1] = "-",
              coefficient |-> IF Significant(digits) = <<>> THEN <<"0">>
                              ELSE Significant(digits),
              places |-> IF dots = {} THEN 0 ELSE Len(abs) - SetMin(dots)]

\* Decimal(s) for a str.
Decimal(s) == DecimalOfStripped(Strip(s))

\* `except Exception:` of _parse_decimal, after which None is returned.
ExceptException(d) == IF IsExc(d) THEN None ELSE d

\* BaseExtractor._parse_decimal: every exception is caught and gives None.
\* A bool is an int to isinstance.
parse_decimal(value) ==
    IF value = None THEN None
    ELSE IF value.t \in {"int", "float", "bool"}
    THEN ExceptException(Decimal(str(value)))
    ELSE IF value.t = "str"
    THEN ExceptException(
             Decimal(Replace(Replace(Replace(value.v, " ", <<>>), ",", <<".">>),
                             "€", <<>>)))
    ELSE None

----------------------------------------------------------------------------
(* The records: models/invoice.py, models/contract.py and the parsers of  *)
(* llm/extractors.py.  Building a record validates it; of that validation *)
(* the model keeps what does not depend on coercion: a required str field *)
(* refuses None, a list field refuses None, an optional field takes None  *)
(* or a value of its type, and confidence_score lies in [0, 1].           *)

ValidationError(field) == Exc("ValidationError", "1 validation error: " \o field)

IsStr(x) == x.t = "str"

IsOptStr(x) == x = None \/ x.t = "str"

IsOptNumber(x) == x = None \/ x.t \in {"int", "float"}

\* confidence_score: Optional[float] = Field(None, ge=0.0, le=1.0)
IsOptScore(x) ==
    \/ x = None
    \/ x.t = "int" /\ x.v \in {0, 1}
    \/ x.t = "float" /\ x.tenths >= 0 /\ x.tenths <= 10

\* The first field of a record that validation refuses, "" when none.
FirstInvalid(checks) ==
    IF \A i \in 1..Len(checks) : checks[i][2] THEN ""
    ELSE checks[SetMin({i \in 1..Len(checks) : ~checks[i][2]})][1]

\* LineItem(...) as _parse_invoice_data builds it from one element.
LineItem(item_data) ==
    IF item_data.t # "dict"
    THEN Exc("AttributeError", "object has no attribute 'get'")
    ELSE LET d == item_data.d
             description == Get(d, "description", Text(<<>>))
             quantity == Get(d, "quantity", None)
             tva_rate == Get(d, "tva_rate", None)
             bad == FirstInvalid(<< <<"description", IsStr(description)>>,
                                    <<"quantity", IsOptNumber(quantity)>>,
                                    <<"tva_rate", IsOptNumber(tva_rate)>> >>)
         IN  IF bad # "" THEN ValidationError(bad)
             ELSE [t |-> "LineItem",
                   description |-> description,
                   quantity |-> quantity,
                   unit_price |-> parse_decimal(Get(d, "unit_price", None)),
                   total_ht |-> parse_decimal(Get(d, "total_ht", None)),
                   tva_rate |-> tva_rate]

\* Party(...) as _parse_contract_data builds it from one element.
Party(party_data) ==
    IF party_data.t # "dict"
    THEN Exc("AttributeError", "object has no attribute 'get'")
    ELSE LET d == party_data.d
             name == Get(d, "name", Text(<<>>))
             bad == FirstInvalid(<< <<"name", IsStr(name)>>,
                                    <<"role", IsOptStr(Get(d, "role", None))>>,
                                    <<"address", IsOptStr(Get(d, "address", None))>>,
                                    <<"siret", IsOptStr(Get(d, "siret", None))>>,
                                    <<"representative",
                                      IsOptStr(Get(d, "representative", None))>> >>)
         IN  IF bad # "" THEN ValidationError(bad)
             ELSE [t |-> "Party",
                   name |-> name,
                   role |-> Get(d, "role", None),
                   address |-> Get(d, "address", None),
                   siret |-> Get(d, "siret", None),
                   representative |-> Get(d, "representative", None)]

\* Clause(...) as _parse_contract_data builds it from one element.
Clause(clause_data) ==
    IF clause_data.t # "dict"
    THEN Exc("AttributeError", "object has no attribute 'get'")
    ELSE LET d == clause_data.d
             title == Get(d, "title", Text(<<>>))
             content == Get(d, "content", Text(<<>>))
             importance == Get(d, "importance", None)
             bad == FirstInvalid(<< <<"title", IsStr(title)>>,
                                    <<"content", IsStr(content)>>,
                                    <<"importance", IsOptStr(importance)>> >>)
         IN  IF bad # "" THEN ValidationError(bad)
             ELSE [t |-> "Clause", title |-> title, content |-> content,
                   importance |-> importance]

\* One element of a nested sequence, built by the parser of its record.
Element(kind, element_data) ==
    CASE kind = "LineItem" -> LineItem(element_data)
      [] kind = "Party" -> Party(element_data)
      [] kind = "Clause" -> Clause(element_data)

\* list.append in the loops of the parsers: the exception of the earliest
\* element that raised one ends the loop.
AppendElement(elements, element) ==
    IF IsExc(elements) THEN elements
    ELSE IF IsExc(element) THEN element
    ELSE [t |-> "list", v |-> Append(elements.v, element)]

\* The loops of the parsers: `for x in data.get(key, [])` appending the
\* element built from x.  The list, or the exception that ends the loop.
RECURSIVE Elements(_, _)
Elements(kind, items) ==
    IF items = <<>> THEN [t |-> "list", v |-> <<>>]
    ELSE AppendElement(Elements(kind, SubSeq(items, 1, Len(items) - 1)),
                       Element(kind, items[Len(items)]))

\* None is not iterable; of the other values only lists are in the responses
\* of this model.
ParseElements(kind, value) ==
    IF value = None
    THEN Exc("TypeError", "'NoneType' object is not iterable")
    ELSE IF value.t # "list"
    THEN Exc("AttributeError", "object has no attribute 'get'")
    ELSE Elements(kind, value.v)

\* The values of the enumeration ContractType.
ContractTypes ==
    {<<"s", "e", "r", "v", "i", "c", "e">>,
     <<"e", "m", "p", "l", "o", "y", "m", "e", "n", "t">>,
     <<"l", "e", "a", "s", "e">>,
     <<"s", "a", "l", "e">>,
     <<"n", "d", "a">>,
     <<"p", "a", "r", "t", "n", "e", "r", "s", "h", "i", "p">>,
     <<"o", "t", "h", "e", "r">>}

\* The contract type of _parse_contract_data: None for a missing or empty
\* one, the member for a known name in any case, OTHER for an unknown name.
ParseContractType(type_str) ==
    IF type_str = None \/ type_str = Text(<<>>) THEN None
    ELSE IF type_str.t # "str"
    THEN Exc("AttributeError", "object has no attribute 'lower'")
    ELSE IF Lower(type_str.v) \in ContractTypes
    THEN [t |-> "ContractType", v |-> Lower(type_str.v)]
    ELSE [t |-> "ContractType", v |-> <<"o", "t", "h", "e", "r">>]

\* Invoice(...) of _parse_invoice_data, its arguments evaluated in the order
\* of the call; the lines and the dates are what the parsing before gave.
InvoiceOf(d, ocr_text, line_items, invoice_date, due_date) ==
    LET bad == FirstInvalid(<<
                   <<"invoice_number", IsOptStr(Get(d, "invoice_number", None))>>,
                   <<"supplier_name", IsOptStr(Get(d, "supplier_name", None))>>,
                   <<"supplier_address", IsOptStr(Get(d, "supplier_address", None))>>,
                   <<"supplier_siret", IsOptStr(Get(d, "supplier_siret", None))>>,
                   <<"supplier_vat_number", IsOptStr(Get(d, "supplier_vat_number", None))>>,
                   <<"client_name", IsOptStr(Get(d, "client_name", None))>>,
                   <<"client_address", IsOptStr(Get(d, "client_address", None))>>,
                   <<"client_siret", IsOptStr(Get(d, "client_siret", None))>>,
                   <<"confidence_score", IsOptScore(Get(d, "confidence_score", None))>> >>)
    IN  IF IsExc(line_items) THEN line_items
        ELSE IF IsExc(invoice_date) THEN invoice_date
        ELSE IF IsExc(due_date) THEN due_date
        ELSE IF bad # "" THEN ValidationError(bad)
        ELSE [t |-> "Invoice",
              invoice_number |-> Get(d, "invoice_number", None),
              invoice_date |-> invoice_date,
              due_date |-> due_date,
              supplier_name |-> Get(d, "supplier_name", None),
              supplier_address |-> Get(d, "supplier_address", None),
              supplier_siret |-> Get(d, "supplier_siret", None),
              supplier_vat_number |-> Get(d, "supplier_vat_number", None),
              client_name |-> Get(d, "client_name", None),
              client_address |-> Get(d, "client_address", None),
              client_siret |-> Get(d, "client_siret", None),
              total_ht |-> parse_decimal(Get(d, "total_ht", None)),
              total_tva |-> parse_decimal(Get(d, "total_tva", None)),
              total_ttc |-> parse_decimal(Get(d, "total_ttc", None)),
              line_items |-> line_items.v,
              confidence_score |-> Get(d, "confidence_score", None),
              raw_text |-> ocr_text,
              extraction_method |-> "llm"]

\* InvoiceExtractor._parse_invoice_data: the Invoice, or the exception that
\* leaves it.
parse_invoice_data(data, ocr_text) ==
    IF data.t # "dict" THEN Exc("AttributeError", "object has no attribute 'get'")
    ELSE InvoiceOf(data.d, ocr_text,
                   ParseElements("LineItem",
                                 Get(data.d, "line_items", [t |-> "list", v |-> <<>>])),
                   parse_date(Get(data.d, "invoice_date", None)),
                   parse_date(Get(data.d, "due_date", None)))

\* Contract(...) of _parse_contract_data, its arguments evaluated in the
\* order of the call; the type, the parties, the clauses and the dates are
\* what the parsing before gave.
ContractOf(d, ocr_text, contract_type, parties, clauses, signature_date, effective_date, end_date) ==
    LET signatures == Get(d, "signatures", [t |-> "list", v |-> <<>>])
        currency == Get(d, "currency", Text(<<"E", "U", "R">>))
        bad == FirstInvalid(<<
                   <<"contract_number", IsOptStr(Get(d, "contract_number", None))>>,
                   <<"title", IsOptStr(Get(d, "title", None))>>,
                   <<"duration", IsOptStr(Get(d, "duration", None))>>,
                   <<"payment_terms", IsOptStr(Get(d, "payment_terms", None))>>,
                   <<"termination_conditions", IsOptStr(Get(d, "termination_conditions", None))>>,
                   <<"renewal_terms", IsOptStr(Get(d, "renewal_terms", None))>>,
                   <<"currency", IsOptStr(currency)>>,
                   <<"signatures", signatures # None /\ signatures.t = "list">>,
                   <<"confidence_score", IsOptScore(Get(d, "confidence_score", None))>> >>)
    IN  IF IsExc(contract_type) THEN contract_type
        ELSE IF IsExc(parties) THEN parties
        ELSE IF IsExc(clauses) THEN clauses
        ELSE IF IsExc(signature_date) THEN signature_date
        ELSE IF IsExc(effective_date) THEN effective_date
        ELSE IF IsExc(end_date) THEN end_date
        ELSE IF bad # "" THEN ValidationError(bad)
        ELSE [t |-> "Contract",
              contract_type |-> contract_type,
              contract_number |-> Get(d, "contract_number", None),
              title |-> Get(d, "title", None),
              parties |-> parties.v,
              signature_date |-> signature_date,
              effective_date |-> effective_date,
              end_date |-> end_date,
              duration |-> Get(d, "duration", None),
              total_amount |-> parse_decimal(Get(d, "total_amount", None)),
              payment_terms |-> Get(d, "payment_terms", None),
              currency |-> currency,
              key_clauses |-> clauses.v,
              termination_conditions |-> Get(d, "termination_conditions", None),
              renewal_terms |-> Get(d, "renewal_terms", None),
              signatures |-> signatures.v,
              confidence_score |-> Get(d, "confidence_score", None),
              raw_text |-> ocr_text,
              extraction_method |-> "llm"]

\* ContractExtractor._parse_contract_data: the Contract, or the exception
\* that leaves it.
parse_contract_data(data, ocr_text) ==
    IF data.t # "dict" THEN Exc("AttributeError", "object has no attribute 'get'")
    ELSE ContractOf(data.d, ocr_text,
                    ParseContractType(Get(data.d, "contract_type", None)),
                    ParseElements("Party",
                                  Get(data.d, "parties", [t |-> "list", v |-> <<>>])),
                    ParseElements("Clause",
                                  Get(data.d, "key_clauses", [t |-> "list", v |-> <<>>])),
                    parse_date(Get(data.d, "signature_date", None)),
                    parse_date(Get(data.d, "effective_date", None)),
                    parse_date(Get(data.d, "end_date", None)))

\* An extract whose try block has no `except Exception` clause: only
\* LLMClientError is turned into ExtractionError.
ExceptClauses_LLMClientErrorOnly(outcome) ==
    IF ~IsExc(outcome) THEN outcome
    ELSE IF outcome.t = "LLMClientError"
    THEN Exc("ExtractionError", "Erreur LLM: " \o outcome.msg)
    ELSE outcome

\* The except clauses of extract: what the try block returned is returned,
\* what it raised is raised as ExtractionError with its message.
ExceptClauses(outcome) ==
    IF ~IsExc(outcome) THEN outcome
    ELSE IF outcome.t = "LLMClientError"
    THEN Exc("ExtractionError", "Erreur LLM: " \o outcome.msg)
    ELSE Exc("ExtractionError", "Erreur lors de l'extraction: " \o outcome.msg)

\* InvoiceExtractor.extract and ContractExtractor.extract: the blank test,
\* then the try block; reply is what generate_json did.  What extract
\* returns, or the exception it raises.
extract(extractor, ocr_text, reply) ==
    IF IsBlank(ocr_text) THEN Exc("ExtractionError", "Texte OCR vide")
    ELSE IF IsExc(reply) THEN ExceptClauses(reply)
    ELSE IF extractor = "invoice_extractor"
    THEN ExceptClauses(parse_invoice_data(reply, ocr_text))
    ELSE ExceptClauses(parse_contract_data(reply, ocr_text))

----------------------------------------------------------------------------
(* One call of extract, taken on its own: the responses a backend can     *)
(* give and the steps of the call                                         *)

MaxItems == 2      \* elements of a nested sequence of a response

\* The sequences over S of at most n elements.
SeqsUpTo(S, n) == UNION {[1..k -> S] : k \in 0..n}

List(items) == [t |-> "list", v |-> items]

Dict(d) == [t |-> "dict", d |-> d]

EmptyDict == [k \in {} |-> None]

\* What a response can hold for a date: null, a date in ISO form, one in
\* day/month/year form, a day the month does not have, no date at all, and
\* a year of eleven digits.
DateValues ==
    {None, Text(<<"2", "0", "2", "4", "-", "0", "1", "-", "1", "5">>),
     Text(<<"1", "5", "/", "0", "1", "/", "2", "0", "2", "4">>),
     Text(<<"3", "1", "/", "0", "2", "/", "2", "0", "2", "4">>),
     Text(<<"a", "b", "c">>),
     Text(<<"0", "1", "/", "0", "1", "/", "9", "9", "9", "9", "9", "9", "9", "9", "9", "9", "9">>)}

\* What a response can hold for an amount.
AmountValues ==
    {None, PyInt(1200), PyFloat(12005),
     Text(<<"1", " ", "2", "0", "0", ",", "5", "0", " ", "€">>),
     Text(<<"a", "b", "c">>)}

S_Service == Text(<<"S", "e", "r", "v", "i", "c", "e">>)

\* The elements of line_items: a complete one, one without description, an
\* empty one, and one whose description is null.
LineItemValues ==
    {Dict(("description" :> S_Service) @@ ("quantity" :> PyInt(1))
          @@ ("unit_price" :> PyFloat(10000)) @@ ("total_ht" :> PyInt(1000))
          @@ ("tva_rate" :> PyFloat(200))),
     Dict(("quantity" :> PyInt(2)) @@ ("unit_price" :> Text(<<"1", "2", ",", "5", "0">>))),
     Dict(EmptyDict),
     Dict(("description" :> None) @@ ("quantity" :> PyInt(1)))}

\* The elements of parties: a complete one, one without name, and one whose
\* name is null.
PartyValues ==
    {Dict(("name" :> Text(<<"A", "B", "C">>)) @@ ("role" :> Text(<<"C", "l", "i", "e", "n", "t">>))
          @@ ("address" :> None) @@ ("siret" :> None)
          @@ ("representative" :> Text(<<"J", "e", "a", "n">>))),
     Dict(("role" :> Text(<<"C", "l", "i", "e", "n", "t">>))),
     Dict(("name" :> None))}

\* The elements of key_clauses: a complete one, an empty one, and one with a
\* title and nothing else.
ClauseValues ==
    {Dict(("title" :> Text(<<"N", "D", "A">>)) @@ ("content" :> Text(<<"s", "e", "c", "r", "e", "t">>))
          @@ ("importance" :> Text(<<"h", "i", "g", "h">>))),
     Dict(EmptyDict),
     Dict(("title" :> Text(<<"N", "D", "A">>)))}

\* A nested sequence of a response: a list of elements, missing ("absent")
\* or null.
Nested(values) == {List(items) : items \in SeqsUpTo(values, MaxItems)}

\* A key the response does not hold.
Absent == [t |-> "absent"]

WithKey(d, key, value) == IF value = Absent THEN d ELSE d @@ (key :> value)

\* The JSON objects a backend can answer an invoice prompt with.
InvoiceResponses ==
    {Dict(WithKey(("invoice_number" :> Text(<<"F", "A", "-", "1">>))
                  @@ ("invoice_date" :> invoice_date)
                  @@ ("total_ttc" :> total_ttc)
                  @@ ("confidence_score" :> PyFloat(9)),
                  "line_items", line_items)) :
        invoice_date \in DateValues, total_ttc \in AmountValues,
        line_items \in Nested(LineItemValues) \cup {Absent, None}}

\* The JSON objects a backend can answer a contract prompt with.
ContractResponses ==
    {Dict(WithKey(WithKey(WithKey(("title" :> Text(<<"B", "a", "i", "l">>))
                                  @@ ("signature_date" :> signature_date),
                                  "contract_type", contract_type),
                          "parties", parties),
                  "key_clauses", key_clauses)) :
        signature_date \in {None, Text(<<"1", "5", "/", "0", "1", "/", "2", "0", "2", "4">>), Text(<<"0", "1", "/", "0", "1", "/", "9", "9", "9", "9", "9", "9", "9", "9", "9", "9", "9">>)},
        contract_type \in {Absent, S_Service, Text(<<"b", "a", "i", "l">>)},
        parties \in Nested(PartyValues) \cup {Absent},
        key_clauses \in Nested(ClauseValues) \cup {Absent}}

\* What json.loads gives for the text MockLLMClient generates: the object of
\* _generate_invoice_response (no number, no date and no amount found in the
\* text), the object of _generate_contract_response, or the empty object;
\* the numbers random gives are those of one draw, see Drawn.
MockResponse(shape) ==
    CASE shape = "invoice_json" ->
             Dict(("invoice_number" :> Text(<<"M", "O", "C", "K", "-", "1", "0", "0", "0">>))
                  @@ ("invoice_date" :> Text(<<"2", "0", "2", "4", "-", "0", "1", "-", "1", "5">>))
                  @@ ("due_date" :> None)
                  @@ ("supplier_name" :> Text(<<"F", "o", "u", "r", "n", "i", "s", "s", "e", "u", "r">>))
                  @@ ("supplier_address" :> Text(<<"P", "a", "r", "i", "s">>))
                  @@ ("supplier_siret" :> Text(<<"1", "2", "3", "4", "5", "6", "7", "8", "9", "0", "1", "2", "3", "4">>))
                  @@ ("supplier_vat_number" :> Text(<<"F", "R", "1", "2">>))
                  @@ ("client_name" :> Text(<<"C", "l", "i", "e", "n", "t">>))
                  @@ ("client_address" :> Text(<<"L", "y", "o", "n">>))
                  @@ ("client_siret" :> None)
                  @@ ("total_ht" :> PyFloat(10000))
                  @@ ("total_tva" :> None)
                  @@ ("total_ttc" :> PyFloat(12000))
                  @@ ("line_items" :>
                        List(<<Dict(("description" :> S_Service)
                                    @@ ("quantity" :> PyInt(1))
                                    @@ ("unit_price" :> PyFloat(10000))
                                    @@ ("total_ht" :> PyFloat(10000))
                                    @@ ("tva_rate" :> PyFloat(200)))>>))
                  @@ ("confidence_score" :> PyFloat(5)))
      [] shape = "contract_json" ->
             Dict(("contract_type" :> Text(<<"o", "t", "h", "e", "r">>))
                  @@ ("contract_number" :> Text(<<"C", "T", "R", "-", "2", "0", "2", "4", "-", "1", "0", "0">>))
                  @@ ("title" :> Text(<<"C", "o", "n", "t", "r", "a", "t">>))
                  @@ ("parties" :>
                        List(<<Dict(("name" :> Text(<<"A", "B", "C">>))
                                    @@ ("role" :> Text(<<"P", "r", "e", "s", "t", "a", "t", "a", "i", "r", "e">>))
                                    @@ ("address" :> Text(<<"P", "a", "r", "i", "s">>))
                                    @@ ("siret" :> Text(<<"9", "8", "7", "6", "5", "4", "3", "2", "1", "0", "9", "8", "7", "6">>))
                                    @@ ("representative" :> Text(<<"J", "e", "a", "n">>))),
                               Dict(("name" :> Text(<<"X", "Y", "Z">>))
                                    @@ ("role" :> Text(<<"C", "l", "i", "e", "n", "t">>))
                                    @@ ("address" :> Text(<<"L", "y", "o", "n">>))
                                    @@ ("siret" :> Text(<<"1", "2", "3", "4", "5", "6", "7", "8", "9", "0", "1", "2", "3", "4">>))
                                    @@ ("representative" :> Text(<<"M", "a", "r", "i", "e">>)))>>))
                  @@ ("signature_date" :> Text(<<"2", "0", "2", "4", "-", "0", "1", "-", "1", "5">>))
                  @@ ("effective_date" :> Text(<<"2", "0", "2", "4", "-", "0", "1", "-", "1", "5">>))
                  @@ ("end_date" :> Text(<<"2", "0", "2", "5", "-", "0", "1", "-", "1", "4">>))
                  @@ ("duration" :> Text(<<"1", "2", " ", "m", "o", "i", "s">>))
                  @@ ("total_amount" :> PyFloat(100000))
                  @@ ("payment_terms" :> Text(<<"3", "0", " ", "j", "o", "u", "r", "s">>))
                  @@ ("currency" :> Text(<<"E", "U", "R">>))
                  @@ ("key_clauses" :>
                        List(<<Dict(("title" :> Text(<<"N", "D", "A">>))
                                    @@ ("content" :> Text(<<"s", "e", "c", "r", "e", "t">>))
                                    @@ ("importance" :> Text(<<"h", "i", "g", "h">>))),
                               Dict(("title" :> Text(<<"F", "i", "n">>))
                                    @@ ("content" :> Text(<<"3", " ", "m", "o", "i", "s">>))
                                    @@ ("importance" :> Text(<<"h", "i", "g", "h">>)))>>))
                  @@ ("termination_conditions" :> Text(<<"3", " ", "m", "o", "i", "s">>))
                  @@ ("renewal_terms" :> Text(<<"t", "a", "c", "i", "t", "e">>))
                  @@ ("signatures" :> List(<<Text(<<"J", "e", "a", "n">>), Text(<<"M", "a", "r", "i", "e">>)>>))
                  @@ ("confidence_score" :> PyFloat(5)))
      [] shape = "empty_json" -> Dict(EmptyDict)

\* What the random module gives one call of generate: randint(1000, 9999)
\* for the invoice number, randint(2024, 2025) and randint(100, 999) for
\* the contract number, uniform(100, 5000), uniform(120, 6000) and
\* uniform(10000, 100000) for the amounts not found in the text; of the wide
\* ranges the two ends stand for all.
RandomDraws ==
    [mock_number : {1000, 9999}, year : {2024, 2025}, serial : {100, 999},
     total_ht : {PyFloat(1000), PyFloat(50000)},
     total_ttc : {PyFloat(1200), PyFloat(60000)},
     total_amount : {PyFloat(100000), PyFloat(1000000)}]

\* f"MOCK-{random.randint(1000, 9999)}", when no number is found in the text
MockNumber(draw) == Text(<<"M", "O", "C", "K", "-">> \o IntToStr(draw.mock_number))

\* f"CTR-{random.randint(2024, 2025)}-{random.randint(100, 999)}"
ContractNumber(draw) ==
    Text(<<"C", "T", "R", "-">> \o IntToStr(draw.year) \o <<"-">> \o IntToStr(draw.serial))

\* The response of one call, its random parts as drawn.
Drawn(response, shape, draw) ==
    CASE shape = "invoice_json" ->
             Dict([response.d EXCEPT !["invoice_number"] = MockNumber(draw),
                                     !["total_ht"] = draw.total_ht,
                                     !["total_ttc"] = draw.total_ttc])
      [] shape = "contract_json" ->
             Dict([response.d EXCEPT !["contract_number"] = ContractNumber(draw),
                                     !["total_amount"] = draw.total_amount])
      [] OTHER -> response

\* What json.loads can give for the texts MockLLMClient generates for one
\* prompt.
MockResponses(shape) ==
    {Drawn(MockResponse(shape), shape, draw) : draw \in RandomDraws}

\* generate_json of MockLLMClient without simulate_errors.
MockParsed(mock) == IF IsExc(mock) THEN {mock} ELSE MockResponses(mock.shape)

\* The clients an extractor can be built on.
Clients == {"MockLLMClient", "MockLLMClient(simulate_errors=True)", "VertexAIClient"}

\* What generate_json of the extractor's client can do on the prompt of the
\* extractor.  MockLLMClient: json.loads of what generate gives, or, with
\* simulate_errors, the exception generate raises.  VertexAIClient: a JSON
\* object, a JSON array, or LLMClientError for a transport failure and for
\* a text that is no JSON.
generate_json(client, extractor, prompt) ==
    CASE client = "MockLLMClient" -> MockParsed(MockGenerateJson(prompt))
          [] client = "MockLLMClient(simulate_errors=True)" ->
                 MockParsed(MockGenerateJson(prompt))
                     \cup {Exc("Exception", "Erreur simulée du LLM")}
          [] client = "VertexAIClient" ->
                 (IF extractor = "invoice_extractor" THEN InvoiceResponses
                  ELSE ContractResponses)
                 \cup {List(<<>>),
                       Exc("LLMClientError", "Erreur lors de la génération: timeout"),
                       Exc("LLMClientError",
                           "La réponse n'est pas un JSON valide: Expecting value")}

\* The texts extract is called with.
ExtractTexts == {<<>>, <<" ", "\n">>, TxtInvoice, TxtContract, TxtTyped}

\* The pipeline's variables while a component is taken on its own.
pipeline_vars == <<pc, self, live, call, stages, llm_log, result, history>>

PipelineOff ==
    /\ pc = "Off"
    /\ self = NewPipeline
    /\ live = [ctor_calls |-> 0, probe_calls |-> 0, initialized |-> FALSE]
    /\ call = NoCall
    /\ stages = <<>>
    /\ llm_log = <<>>
    /\ result = None
    /\ history = [calls |-> 0, failed |-> 0, succeeded |-> 0]

InitExtract ==
    /\ PipelineOff
    /\ enhancement = None
    /\ ocr_run = None
    /\ evaluation = None
    /\ extraction \in {[pc |-> "Ready", client |-> c, extractor |-> "none",
                        ocr_text |-> <<>>, backend_calls |-> 0, reply |-> None,
                        outcome |-> None] : c \in Clients}

\* extract is called: the blank test of lines 97 and 166.
ExtractCall ==
    /\ extraction.pc = "Ready"
    /\ \E extractor \in {"invoice_extractor", "contract_extractor"},
          ocr_text \in ExtractTexts :
         extraction' =
             [extraction EXCEPT
                 !.extractor = extractor,
                 !.ocr_text = ocr_text,
                 !.pc = IF IsBlank(ocr_text) THEN "Raised" ELSE "generate_json",
                 !.outcome = IF IsBlank(ocr_text)
                             THEN extract(extractor, ocr_text, None) ELSE None]
    /\ UNCHANGED <<pipeline_vars, ocr_run, evaluation, enhancement>>

\* data = self.llm_client.generate_json(prompt)
GenerateJson ==
    /\ extraction.pc = "generate_json"
    /\ \E reply \in generate_json(extraction.client, extraction.extractor,
                                  Prompt(IF extraction.extractor = "invoice_extractor"
                                         THEN "invoice" ELSE "contract",
                                         extraction.ocr_text)) :
         extraction' = [extraction EXCEPT !.reply = reply,
                                          !.backend_calls = @ + 1,
                                          !.pc = "parse"]
    /\ UNCHANGED <<pipeline_vars, ocr_run, evaluation, enhancement>>

\* The rest of the try block and its except clauses: extract returns the
\* record or raises.
ExtractEnd ==
    /\ extraction.pc = "parse"
    /\ \E outcome \in {extract(extraction.extractor, extraction.ocr_text,
                               extraction.reply)} :
         extraction' = [extraction EXCEPT
                           !.outcome = outcome,
                           !.pc = IF IsExc(outcome) THEN "Raised" ELSE "Returned"]
    /\ UNCHANGED <<pipeline_vars, ocr_run, evaluation, enhancement>>

NextExtract ==
    \/ ExtractCall
    \/ GenerateJson
    \/ ExtractEnd

SpecExtract == InitExtract /\ [][NextExtract]_vars

\* Two calls of extract with the same text on one extractor built on
\* MockLLMClient(): each asks generate_json with the same prompt.
MockPrompt(extractor, ocr_text) ==
    Prompt(IF extractor = "invoice_extractor" THEN "invoice" ELSE "contract", ocr_text)

\* What one call leaves: the response of the backend and what extract
\* returned or raised.
Extraction(extractor, ocr_text, reply) ==
    [reply |-> reply, outcome |-> extract(extractor, ocr_text, reply)]

Extractions(extractor, ocr_text) ==
    IF IsBlank(ocr_text) THEN {Extraction(extractor, ocr_text, None)}
    ELSE {Extraction(extractor, ocr_text, reply) :
              reply \in generate_json("MockLLMClient", extractor,
                                      MockPrompt(extractor, ocr_text))}

InitTwice ==
    /\ PipelineOff
    /\ enhancement = None
    /\ ocr_run = None
    /\ evaluation = None
    /\ extraction \in {[pc |-> "Ready", client |-> "MockLLMClient",
                        extractor |-> extractor, ocr_text |-> ocr_text,
                        first |-> None, second |-> None] :
                           extractor \in {"invoice_extractor", "contract_extractor"},
                           ocr_text \in ExtractTexts \cup {TxtOther}}

FirstExtract ==
    /\ extraction.pc = "Ready"
    /\ \E e \in Extractions(extraction.extractor, extraction.ocr_text) :
           extraction' = [extraction EXCEPT !.pc = "Once", !.first = e]
    /\ UNCHANGED <<pipeline_vars, ocr_run, evaluation, enhancement>>

SecondExtract ==
    /\ extraction.pc = "Once"
    /\ \E e \in Extractions(extraction.extractor, extraction.ocr_text) :
           extraction' = [extraction EXCEPT !.pc = "Twice", !.second = e]
    /\ UNCHANGED <<pipeline_vars, ocr_run, evaluation, enhancement>>

NextTwice ==
    \/ FirstExtract
    \/ SecondExtract

SpecTwice == InitTwice /\ [][NextTwice]_vars

----------------------------------------------------------------------------
(* Properties of extract *)

\* The call of extract has returned or raised.
ExtractFinished == extraction.pc \in {"Returned", "Raised"}

\* The backend was asked and answered with a JSON object.
AnsweredWithObject ==
    /\ ExtractFinished
    /\ extraction.backend_calls = 1
    /\ extraction.reply.t = "dict"

\* C11: when generate_json fails during extract on a non-blank text, whether
\* the client is the live one or the simulation, extract raises
\* ExtractionError and its message ends with the message of the failure;
\* and whatever extract raises, on any text and any response, is an
\* ExtractionError.
C11_BackendFailureIsExtractionError ==
    ExtractFinished =>
        /\ extraction.pc = "Raised" => extraction.outcome.t = "ExtractionError"
        /\ (extraction.backend_calls = 1 /\ IsExc(extraction.reply)) =>
               /\ extraction.pc = "Raised"
               /\ extraction.outcome.msg \in
                      {"Erreur LLM: " \o extraction.reply.msg,
                       "Erreur lors de l'extraction: " \o extraction.reply.msg}

\* The simulation backend answered with a text that is no JSON, and extract
\* raised ExtractionError.
C11_Witness ==
    /\ extraction.pc = "Raised"
    /\ extraction.client = "MockLLMClient"
    /\ extraction.reply.t = "JSONDecodeError"
    /\ extraction.outcome.t = "ExtractionError"

\* The keys of a response that hold dates and those that hold amounts.
DateKeys == {"invoice_date", "due_date", "signature_date", "effective_date", "end_date"}

AmountKeys == {"total_ht", "total_tva", "total_ttc", "total_amount"}

\* The dict without the keys.
Without(d, keys) == [k \in DOMAIN d \ keys |-> d[k]]

\* C12: a malformed date or amount in the response never fails the document:
\* _parse_date and _parse_decimal raise on no value of the response, and
\* when the response without its dates and amounts gives a record, the
\* response gives a record too, with the same values in all other fields.
C12_MalformedValueDegradesField ==
    AnsweredWithObject =>
        /\ \A k \in DateKeys : ~IsExc(parse_date(Get(extraction.reply.d, k, None)))
        /\ \A k \in AmountKeys : ~IsExc(parse_decimal(Get(extraction.reply.d, k, None)))
        /\ \A clean \in {extract(extraction.extractor, extraction.ocr_text,
                                 Dict(Without(extraction.reply.d,
                                              DateKeys \cup AmountKeys)))} :
               ~IsExc(clean) =>
                   /\ extraction.pc = "Returned"
                   /\ \A f \in DOMAIN clean \ (DateKeys \cup AmountKeys) :
                          extraction.outcome[f] = clean[f]

\* The nested sequences of a record, those the extractor reads, the field of
\* an element that names it and its other fields.
NestedKeys == {"line_items", "parties", "key_clauses"}

NestedKeysOf(extractor) ==
    IF extractor = "invoice_extractor" THEN {"line_items"}
    ELSE {"parties", "key_clauses"}

NameField(key) ==
    CASE key = "line_items" -> "description"
      [] key = "parties" -> "name"
      [] key = "key_clauses" -> "title"

OtherFields(key) ==
    CASE key = "line_items" -> {"quantity", "unit_price", "total_ht", "tva_rate"}
      [] key = "parties" -> {"role", "address", "siret", "representative"}
      [] key = "key_clauses" -> {"content", "importance"}

\* C13: the nested sequences of a response never cause the record to be
\* rejected: when the response without them gives a record and they are
\* lists of objects, the response gives a record too, each sequence with as many elements as the response
\* holds, in the same order, an element without description, name or title
\* having the empty string there and null in its other missing fields.
C13_NestedElementsKept ==
    AnsweredWithObject =>
        \A clean \in {extract(extraction.extractor, extraction.ocr_text,
                              Dict(Without(extraction.reply.d, NestedKeys)))} :
            (/\ ~IsExc(clean)
             /\ \A key \in NestedKeys \cap DOMAIN extraction.reply.d :
                    extraction.reply.d[key].t = "list") =>
                /\ extraction.pc = "Returned"
                /\ \A key \in NestedKeysOf(extraction.extractor)
                                  \cap DOMAIN extraction.reply.d :
                       LET given == extraction.reply.d[key].v
                           kept == extraction.outcome[key]
                       IN  /\ Len(kept) = Len(given)
                           /\ \A i \in 1..Len(given) :
                                  /\ NameField(key) \in DOMAIN given[i].d
                                         => kept[i][NameField(key)]
                                                = given[i].d[NameField(key)]
                                  /\ NameField(key) \notin DOMAIN given[i].d
                                         => kept[i][NameField(key)] = Text(<<>>)
                                  /\ \A f \in OtherFields(key) \ DOMAIN given[i].d :
                                         kept[i][f] = None

----------------------------------------------------------------------------
(* Text recognition page by page: TesseractOCR.extract_text and            *)
(* TesseractOCR.extract_from_multiple.  Confidences are fractions          *)
(* num / den in lowest terms, so that the means are exact.                 *)

RECURSIVE Gcd(_, _)
Gcd(a, b) == IF b = 0 THEN a ELSE Gcd(b, a % b)

Reduced(num, den, g) == [num |-> num \div g, den |-> den \div g]

\* The fraction num / den, den > 0, in lowest terms.
Rat(num, den) == Reduced(num, den, Gcd(num, den))

RatZero == [num |-> 0, den |-> 1]

RatAdd(a, b) == Rat(a.num * b.den + b.num * a.den, a.den * b.den)

\* a * n and a / n for an int n.
RatTimes(a, n) == Rat(a.num * n, a.den)

RatOver(a, n) == Rat(a.num, a.den * n)

RatLeq(a, b) == a.num * b.den <= b.num * a.den

\* What pytesseract hands back for one image: the string of
\* image_to_string, the conf and text columns of image_to_data and the time
\* the two calls took; raises says that the engine failed on the image.
TokSentinel == PyInt(0 - 1)

Data(string, conf, text, ms) ==
    [string |-> string, conf |-> conf, text |-> text, ms |-> ms, raises |-> FALSE]

\* An empty page: only the page-level row, without confidence.
ImgBlank == Data(<<"\n">>, <<TokSentinel>>, <<<<>>>>, 1)

\* "ab cd": two words recognised at 90, under one block row.
ImgAbCd ==
    Data(<<" ", "a", "b", " ", "c", "d", "\n">>,
         <<TokSentinel, PyInt(90), PyInt(90)>>,
         <<<<>>, <<"a", "b">>, <<"c", "d">>>>, 2)

\* "ef": one word recognised at 60, under two structural rows.
ImgEf ==
    Data(<<"e", "f", "\n">>,
         <<TokSentinel, TokSentinel, PyInt(60)>>,
         <<<<>>, <<>>, <<"e", "f">>>>, 1)

\* Two words at the ends of the scale and a third at 95.
ImgXyz ==
    Data(<<"x", " ", "y", " ", "z">>,
         <<PyInt(100), PyInt(0), PyInt(95)>>,
         <<<<"x">>, <<"y">>, <<"z">>>>, 3)

\* A token of white space only, with a confidence of its own: it counts in
\* the confidence and not in the words.
ImgSmudge == Data(<<" ", "\n">>, <<TokSentinel, PyInt(95)>>, <<<<>>, <<" ">>>>, 0)

\* An image the engine fails on.
ImgBroken == [Data(<<>>, <<>>, <<>>, 0) EXCEPT !.raises = TRUE]

PageImages == {ImgBlank, ImgAbCd, ImgEf, ImgXyz, ImgSmudge, ImgBroken}

\* sum(confidences)
RECURSIVE Sum(_)
Sum(ns) == IF ns = <<>> THEN 0 ELSE ns[1].v + Sum(Tail(ns))

IsConfidence_CountsSentinels(c) == c.t \in {"int", "float"}

\* [int(c) for c in data["conf"] if isinstance(c, (int, float)) and int(c) >= 0]
IsConfidence(c) == c.t \in {"int", "float"} /\ c.v >= 0

Confidences(data) == SelectSeq(data.conf, IsConfidence)

\* avg_confidence / 100.0, avg_confidence being 0.0 without confidences.
AvgConfidence(confidences) ==
    IF confidences = <<>> THEN RatZero
    ELSE Rat(Sum(confidences), 100 * Len(confidences))

\* [w for w in data["text"] if w.strip()]
IsWord(w) == ~IsBlank(w)

Words(data) == SelectSeq(data.text, IsWord)

OCRResult(text, confidence, word_count, processing_time_ms) ==
    [t |-> "OCRResult", text |-> text, confidence |-> confidence,
     word_count |-> word_count, processing_time_ms |-> processing_time_ms]

\* TesseractOCR.extract_text on one image.
extract_text(image) ==
    IF image.raises
    THEN Exc("OCRError", "Erreur Tesseract")
    ELSE OCRResult(Strip(image.string), AvgConfidence(Confidences(image)),
                   Len(Words(image)), PyInt(image.ms))

\* str.format(n=i) of a separator: {n} becomes the page number, {{ and }}
\* become one brace, and a brace on its own is refused.
RECURSIVE FormatRefused(_)
FormatRefused(s) ==
    IF s = <<>> THEN FALSE
    ELSE IF s[1] = "{"
    THEN IF Len(s) >= 2 /\ s[2] = "{" THEN FormatRefused(SubSeq(s, 3, Len(s)))
         ELSE IF Len(s) >= 3 /\ s[2] = "n" /\ s[3] = "}"
         THEN FormatRefused(SubSeq(s, 4, Len(s)))
         ELSE TRUE
    ELSE IF s[1] = "}"
    THEN IF Len(s) >= 2 /\ s[2] = "}" THEN FormatRefused(SubSeq(s, 3, Len(s)))
         ELSE TRUE
    ELSE FormatRefused(Tail(s))

RECURSIVE Formatted(_, _)
Formatted(s, n) ==
    IF s = <<>> THEN <<>>
    ELSE IF s[1] = "{" /\ s[2] = "n"
    THEN IntToStr(n) \o Formatted(SubSeq(s, 4, Len(s)), n)
    ELSE IF s[1] \in {"{", "}"}
    THEN <<s[1]>> \o Formatted(SubSeq(s, 3, Len(s)), n)
    ELSE <<s[1]>> \o Formatted(Tail(s), n)

format(separator, n) ==
    IF FormatRefused(separator)
    THEN Exc("ValueError", "Single '{' encountered in format string")
    ELSE Text(Formatted(separator, n))

\* The default separator, cut down to its shape: text, {n}, text.
SepNumbered == <<"\n", "-", "{", "n", "}", "-", "\n">>

SepNone == <<>>

SepBrace == <<"{">>

Separators == {PageSeparator, SepNumbered, SepNone, SepBrace}

\* "".join(texts)
RECURSIVE Join(_)
Join(texts) == IF texts = <<>> THEN <<>> ELSE texts[1] \o Join(Tail(texts))

\* if separator and i > 1: texts.append(separator.format(n=i))
SeparatorAt_EveryPage(separator, i) ==
    IF separator # <<>> THEN format(separator, i) ELSE None

SeparatorAt(separator, i) ==
    IF separator # <<>> /\ i > 1 THEN format(separator, i) ELSE None

\* texts after the separator, if any, and the page's text were appended.
TextsWith(texts, sep, text) ==
    IF sep = None THEN Append(texts, text) ELSE texts \o <<sep.v, text>>

\* result.processing_time_ms or 0
OrZero(ms) == IF ms = None THEN 0 ELSE ms.v

\* The weighted mean when words were found, 0.0 otherwise.
Average_Unweighted(total_confidence, total_words, pages) ==
    IF total_words > 0 THEN RatOver(total_confidence, pages) ELSE RatZero

Average(total_confidence, total_words, pages) ==
    IF total_words > 0 THEN RatOver(total_confidence, total_words) ELSE RatZero

EmptyResult_FullConfidence == OCRResult(<<>>, Rat(1, 1), 0, None)

\* The empty result of extract_from_multiple: no time is set on it.
EmptyResult == OCRResult(<<>>, RatZero, 0, None)

\* The local variables of extract_from_multiple before the loop.
Locals(run) ==
    [run EXCEPT !.pc = "for", !.i = 1, !.texts = <<>>,
                !.total_confidence = RatZero, !.total_words = 0,
                !.total_time = 0]

\* One pass of the loop body once extract_text has answered with result and
\* the separator of the page is sep.
LoopBody(run, res, sep) ==
    IF IsExc(res) THEN [run EXCEPT !.pc = "Raised", !.outcome = res]
    ELSE IF IsExc(sep)
    THEN [run EXCEPT !.pc = "Raised", !.outcome = sep,
                     !.results = Append(@, res)]
    ELSE [run EXCEPT !.pc = "for", !.i = @ + 1,
                     !.results = Append(@, res),
                     !.texts = TextsWith(@, sep, res.text),
                     !.total_confidence =
                         RatAdd(@, RatTimes(res.confidence, res.word_count)),
                     !.total_words = @ + res.word_count,
                     !.total_time = @ + OrZero(res.processing_time_ms)]

Logged(log, op, page) == Append(log, [op |-> op, page |-> page])

ImageLists == UNION {[1..n -> PageImages] : n \in 0..MaxPages}

InitMultiple ==
    /\ PipelineOff
    /\ enhancement = None
    /\ extraction = None
    /\ evaluation = None
    /\ ocr_run \in {[pc |-> "Ready", images |-> images, separator |-> separator,
                     i |-> 0, texts |-> <<>>, total_confidence |-> RatZero,
                     total_words |-> 0, total_time |-> 0, results |-> <<>>,
                     engine_log |-> <<>>, outcome |-> None] :
                        images \in ImageLists, separator \in Separators}

\* extract_from_multiple up to the loop: an empty list is answered at once.
MultipleCall ==
    /\ ocr_run.pc = "Ready"
    /\ ocr_run' = IF ocr_run.images = <<>>
                  THEN [ocr_run EXCEPT !.pc = "Returned", !.outcome = EmptyResult]
                  ELSE Locals(ocr_run)
    /\ UNCHANGED <<pipeline_vars, extraction, evaluation, enhancement>>

\* The loop takes the next image and hands it to extract_text.
EngineCall ==
    /\ ocr_run.pc = "for"
    /\ ocr_run.i <= Len(ocr_run.images)
    /\ ocr_run' = [ocr_run EXCEPT !.pc = "extract_text",
                       !.engine_log = Logged(@, "call", ocr_run.i)]
    /\ UNCHANGED <<pipeline_vars, extraction, evaluation, enhancement>>

\* extract_text answers and the rest of the loop body runs.
EngineReturn ==
    /\ ocr_run.pc = "extract_text"
    /\ \E run \in {[ocr_run EXCEPT !.engine_log = Logged(@, "return", ocr_run.i)]} :
           ocr_run' = LoopBody(run, extract_text(run.images[run.i]),
                               SeparatorAt(run.separator, run.i))
    /\ UNCHANGED <<pipeline_vars, extraction, evaluation, enhancement>>

\* After the last image: the combined result.
MultipleReturn ==
    /\ ocr_run.pc = "for"
    /\ ocr_run.i > Len(ocr_run.images)
    /\ ocr_run' = [ocr_run EXCEPT !.pc = "Returned",
                       !.outcome = OCRResult(Join(ocr_run.texts),
                                             Average(ocr_run.total_confidence,
                                                     ocr_run.total_words,
                                                     Len(ocr_run.images)),
                                             ocr_run.total_words,
                                             PyInt(ocr_run.total_time))]
    /\ UNCHANGED <<pipeline_vars, extraction, evaluation, enhancement>>

NextMultiple ==
    \/ MultipleCall
    \/ EngineCall
    \/ EngineReturn
    \/ MultipleReturn

SpecMultiple == InitMultiple /\ [][NextMultiple]_vars

----------------------------------------------------------------------------
(* Properties of extract_from_multiple *)

MultipleReturned == ocr_run # None /\ ocr_run.pc = "Returned"

\* The page texts in order, the formatted separator before every page after
\* the first.
RECURSIVE PagesJoined(_, _)
PagesJoined(results, separator) ==
    IF results = <<>> THEN <<>>
    ELSE IF Len(results) = 1 THEN results[1].text
    ELSE PagesJoined(SubSeq(results, 1, Len(results) - 1), separator)
             \o format(separator, Len(results)).v
             \o results[Len(results)].text

\* The k-th entry of a log in which the pages are recognised one after the
\* other, in input order.
InTurn(k) ==
    [op |-> IF k % 2 = 1 THEN "call" ELSE "return", page |-> (k + 1) \div 2]

\* C14: extract_from_multiple hands the pages to extract_text in input order
\* and one at a time, the call for a page coming only after the previous
\* page's call has returned; and the text of the combined result is the
\* page texts in input order with the separator before every page after the
\* first and nowhere else.
C14_PagesInOrder ==
    ocr_run # None =>
        /\ \A k \in 1..Len(ocr_run.engine_log) : ocr_run.engine_log[k] = InTurn(k)
        /\ \A k \in 1..Len(ocr_run.results) :
               ocr_run.results[k] = extract_text(ocr_run.images[k])
        /\ MultipleReturned =>
               /\ Len(ocr_run.results) = Len(ocr_run.images)
               /\ Len(ocr_run.engine_log) = 2 * Len(ocr_run.images)
               /\ ocr_run.outcome.text
                      = PagesJoined(ocr_run.results, ocr_run.separator)

\* Two pages with text were combined under the numbered separator.
C14_Witness ==
    /\ MultipleReturned
    /\ ocr_run.images = <<ImgAbCd, ImgEf>>
    /\ ocr_run.separator = SepNumbered
    /\ ocr_run.outcome.text
           = <<"a", "b", " ", "c", "d", "\n", "-", "2", "-", "\n", "e", "f">>

\* The sum of the per-page times.
RECURSIVE SumTimes(_)
SumTimes(results) ==
    IF results = <<>> THEN 0
    ELSE OrZero(results[1].processing_time_ms) + SumTimes(Tail(results))

\* The sum of confidence * word_count over the pages.
RECURSIVE Weighted(_)
Weighted(results) ==
    IF results = <<>> THEN RatZero
    ELSE RatAdd(RatTimes(results[1].confidence, results[1].word_count),
                Weighted(Tail(results)))

\* C15: for a page list that is not empty, the combined result's word_count
\* is the sum of the pages' word counts, its processing time the sum of the
\* pages' times, and its confidence the mean of the pages' confidences
\* weighted by their word counts, 0.0 when no page has a word; pages of
\* confidence 0.9 with 2 words and 0.6 with 1 word give 0.8 and 3 words.
C15_WeightedMean ==
    (MultipleReturned /\ ocr_run.images # <<>>) =>
        /\ ocr_run.outcome.word_count = TotalWords(ocr_run.results)
        /\ ocr_run.outcome.processing_time_ms = PyInt(SumTimes(ocr_run.results))
        /\ TotalWords(ocr_run.results) > 0 =>
               RatTimes(ocr_run.outcome.confidence, TotalWords(ocr_run.results))
                   = Weighted(ocr_run.results)
        /\ TotalWords(ocr_run.results) = 0 => ocr_run.outcome.confidence = RatZero
        /\ (/\ Len(ocr_run.results) = 2
            /\ ocr_run.results[1].confidence = Rat(9, 10)
            /\ ocr_run.results[1].word_count = 2
            /\ ocr_run.results[2].confidence = Rat(6, 10)
            /\ ocr_run.results[2].word_count = 1)
               => /\ ocr_run.outcome.confidence = Rat(8, 10)
                  /\ ocr_run.outcome.word_count = 3

\* The example: a page at 0.9 with 2 words, then a page at 0.6 with 1 word.
C15_Witness ==
    /\ MultipleReturned
    /\ Len(ocr_run.results) = 2
    /\ ocr_run.results[1].confidence = Rat(9, 10)
    /\ ocr_run.results[1].word_count = 2
    /\ ocr_run.results[2].confidence = Rat(6, 10)
    /\ ocr_run.results[2].word_count = 1
    /\ ocr_run.outcome.confidence = Rat(8, 10)
    /\ ocr_run.outcome.processing_time_ms = PyInt(3)

\* C16: extract_from_multiple of an empty page list returns the text "",
\* the confidence 0.0 and the word count 0, and extract_text is not invoked.
C16_EmptyListNoEngine ==
    (ocr_run # None /\ ocr_run.images = <<>>) =>
        /\ ocr_run.engine_log = <<>>
        /\ ocr_run.pc \in {"Ready", "Returned"}
        /\ MultipleReturned =>
               /\ ocr_run.outcome.text = <<>>
               /\ ocr_run.outcome.confidence = RatZero
               /\ ocr_run.outcome.word_count = 0

C16_Witness ==
    /\ MultipleReturned
    /\ ocr_run.images = <<>>
    /\ ocr_run.outcome.t = "OCRResult"

\* The sum of the confidences at the positions J of a conf column.
RECURSIVE SumAt(_, _)
SumAt(conf, J) ==
    IF J = {} THEN 0
    ELSE conf[SetMin(J)].v + SumAt(conf, J \ {SetMin(J)})

NonNegative(conf) == {j \in DOMAIN conf : conf[j].v >= 0}

InUnitInterval(c) == RatLeq(RatZero, c) /\ RatLeq(c, Rat(1, 1))

\* C17: with token confidences in 0..100 or the sentinel -1, the confidence
\* of every result of extract_text and of extract_from_multiple lies in
\* [0, 1]; a page's confidence is the mean of its non-negative token
\* confidences divided by 100, the sentinels left out of the count, and 0.0
\* when it has no such token.
C17_ConfidenceInUnitInterval ==
    ocr_run # None =>
        /\ \A k \in 1..Len(ocr_run.results) :
               /\ InUnitInterval(ocr_run.results[k].confidence)
               /\ NonNegative(ocr_run.images[k].conf) = {}
                      => ocr_run.results[k].confidence = RatZero
               /\ NonNegative(ocr_run.images[k].conf) # {}
                      => ocr_run.results[k].confidence.num * 100
                             * Cardinality(NonNegative(ocr_run.images[k].conf))
                         = ocr_run.results[k].confidence.den
                             * SumAt(ocr_run.images[k].conf,
                                     NonNegative(ocr_run.images[k].conf))
        /\ MultipleReturned => InUnitInterval(ocr_run.outcome.confidence)

\* A page with two sentinels and one token at 60 was given 0.6, and a page
\* without any confidence 0.0.
C17_Witness ==
    /\ MultipleReturned
    /\ ocr_run.images = <<ImgEf, ImgBlank>>
    /\ ocr_run.results[1].confidence = Rat(6, 10)
    /\ ocr_run.results[2].confidence = RatZero
    /\ ocr_run.outcome.confidence = Rat(6, 10)

----------------------------------------------------------------------------
(* Evaluation: normalize_value, compare_values and calculate_field_metrics *)
(* of evaluation/metrics.py                                                *)

MaxSamples == 2    \* pairs of a prediction and a ground truth

\* " ".join(s.split()) on a text without white space at its ends.
RECURSIVE Squeezed(_)
Squeezed(s) ==
    IF Len(s) <= 1 THEN s
    ELSE IF IsSpace(s[1]) /\ IsSpace(s[2]) THEN Squeezed(Tail(s))
    ELSE <<IF IsSpace(s[1]) THEN " " ELSE s[1]>> \o Squeezed(Tail(s))

\* " ".join(s.split())
JoinSplit(s) == Squeezed(Strip(s))

Punctuation == {".", ",", ";", ":", "-", "_", "'"}

\* value_str.replace(char, " ") for every char of the punctuation
Unpunctuated(s) == [i \in 1..Len(s) |-> IF s[i] \in Punctuation THEN " " ELSE s[i]]

normalize_value_NoLastJoin(value) ==
    IF value = None THEN <<>>
    ELSE Unpunctuated(JoinSplit(Strip(Lower(str(value)))))

normalize_value(value) ==
    IF value = None THEN <<>>
    ELSE JoinSplit(Unpunctuated(JoinSplit(Strip(Lower(str(value))))))

RECURSIVE Pow10(_)
Pow10(n) == IF n = 0 THEN 1 ELSE 10 * Pow10(n - 1)

\* float of a text in decimal notation, as a fraction.
FloatOfDecimal(d) ==
    IF IsExc(d) THEN Exc("ValueError", "could not convert string to float")
    ELSE [t |-> "float",
          q |-> Rat((IF d.negative THEN 0 - 1 ELSE 1) * DigitsValue(d.coefficient),
                    Pow10(d.places))]

\* float(value): the numbers as they are, a text by its decimal notation
\* (the texts of this model hold no exponent, inf or nan).
float(value) ==
    CASE value.t = "int" -> [t |-> "float", q |-> Rat(value.v, 1)]
      [] value.t = "float" -> [t |-> "float", q |-> Rat(value.tenths, 10)]
      [] value.t = "str" -> FloatOfDecimal(DecimalOfStripped(Strip(value.v)))
      [] OTHER -> Exc("TypeError", "float() argument must be a string or a real number")

Abs(n) == IF n < 0 THEN 0 - n ELSE n

\* max(abs(exp_num), 1)
MaxAbsOrOne(q) == IF Abs(q.num) >= q.den THEN [num |-> Abs(q.num), den |-> q.den]
                  ELSE [num |-> 1, den |-> 1]

\* abs(pred_num - exp_num) / max(abs(exp_num), 1) < 0.01
WithinTolerance(p, e, m) ==
    100 * Abs(p.num * e.den - e.num * p.den) * m.den < p.den * e.den * m.num

\* The try block of compare_values: a value float refuses is not close.
Close(pred_num, exp_num) ==
    /\ ~IsExc(pred_num)
    /\ ~IsExc(exp_num)
    /\ WithinTolerance(pred_num.q, exp_num.q, MaxAbsOrOne(exp_num.q))

Compared(predicted, expected, field_type, pred_norm, exp_norm) ==
    [exact |-> pred_norm = exp_norm,
     partial |-> /\ pred_norm # exp_norm
                 /\ \/ Contains(exp_norm, pred_norm)
                    \/ Contains(pred_norm, exp_norm)
                    \/ field_type = "number" /\ Close(float(predicted), float(expected))]

compare_values(predicted, expected, field_type) ==
    IF expected = None \/ predicted = None
    THEN [exact |-> FALSE, partial |-> FALSE]
    ELSE Compared(predicted, expected, field_type,
                  normalize_value(predicted), normalize_value(expected))

F_total_ttc == <<"t", "o", "t", "a", "l", "_", "t", "t", "c">>

F_invoice_number ==
    <<"i", "n", "v", "o", "i", "c", "e", "_", "n", "u", "m", "b", "e", "r">>

F_invoice_date == <<"i", "n", "v", "o", "i", "c", "e", "_", "d", "a", "t", "e">>

NumberMarks ==
    {<<"t", "o", "t", "a", "l">>, <<"a", "m", "o", "u", "n", "t">>,
     <<"p", "r", "i", "c", "e">>, <<"t", "v", "a">>}

\* The type calculate_field_metrics gives a field, from its name.
FieldType(field) ==
    IF \E x \in NumberMarks : Contains(field, x) THEN "number"
    ELSE IF Contains(field, <<"d", "a", "t", "e">>) THEN "date"
    ELSE "string"

FieldMetrics(field_name) ==
    [field_name |-> field_name, true_positives |-> 0, false_positives |-> 0,
     false_negatives |-> 0, exact_matches |-> 0, partial_matches |-> 0,
     total_samples |-> 0]

\* FieldMetrics.precision
precision(m) ==
    IF m.true_positives + m.false_positives = 0 THEN RatZero
    ELSE Rat(m.true_positives, m.true_positives + m.false_positives)

recall_OverFalsePositives(m) ==
    IF m.true_positives + m.false_negatives = 0 THEN RatZero
    ELSE Rat(m.true_positives, m.false_positives + m.false_negatives)

\* FieldMetrics.recall
recall(m) ==
    IF m.true_positives + m.false_negatives = 0 THEN RatZero
    ELSE Rat(m.true_positives, m.true_positives + m.false_negatives)

\* 2 * (p * r) / (p + r), and 0.0 when p + r is 0.
HarmonicMean(p, r) ==
    IF p.num * r.den + r.num * p.den = 0 THEN RatZero
    ELSE Rat(2 * p.num * r.num, p.num * r.den + r.num * p.den)

\* FieldMetrics.f1_score
f1_score(m) == HarmonicMean(precision(m), recall(m))

\* FieldMetrics.accuracy
accuracy(m) ==
    IF m.total_samples = 0 THEN RatZero
    ELSE Rat(m.exact_matches, m.total_samples)

Counted_PartialAsExact(m, pred_value, truth_value, c) ==
    IF truth_value = None THEN m
    ELSE IF pred_value = None
    THEN [m EXCEPT !.false_negatives = @ + 1]
    ELSE IF c.exact
    THEN [m EXCEPT !.true_positives = @ + 1, !.exact_matches = @ + 1]
    ELSE IF c.partial
    THEN [m EXCEPT !.true_positives = @ + 1, !.exact_matches = @ + 1,
                   !.partial_matches = @ + 1]
    ELSE [m EXCEPT !.false_positives = @ + 1]

Counted_MissAsFalsePositive(m, pred_value, truth_value, c) ==
    IF truth_value = None THEN m
    ELSE IF pred_value = None
    THEN [m EXCEPT !.false_positives = @ + 1]
    ELSE IF c.exact
    THEN [m EXCEPT !.true_positives = @ + 1, !.exact_matches = @ + 1]
    ELSE IF c.partial
    THEN [m EXCEPT !.true_positives = @ + 1, !.partial_matches = @ + 1]
    ELSE [m EXCEPT !.false_positives = @ + 1]

Counted_UnlabelledAsMiss(m, pred_value, truth_value, c) ==
    IF pred_value = None
    THEN [m EXCEPT !.false_negatives = @ + 1]
    ELSE IF truth_value = None THEN m
    ELSE IF c.exact
    THEN [m EXCEPT !.true_positives = @ + 1, !.exact_matches = @ + 1]
    ELSE IF c.partial
    THEN [m EXCEPT !.true_positives = @ + 1, !.partial_matches = @ + 1]
    ELSE [m EXCEPT !.false_positives = @ + 1]

\* The counters of a field after a pair compared as c.
Counted(m, pred_value, truth_value, c) ==
    IF truth_value = None THEN m
    ELSE IF pred_value = None
    THEN [m EXCEPT !.false_negatives = @ + 1]
    ELSE IF c.exact
    THEN [m EXCEPT !.true_positives = @ + 1, !.exact_matches = @ + 1]
    ELSE IF c.partial
    THEN [m EXCEPT !.true_positives = @ + 1, !.partial_matches = @ + 1]
    ELSE [m EXCEPT !.false_positives = @ + 1]

\* metrics[field].total_samples += 1
Sampled(m) == [m EXCEPT !.total_samples = @ + 1]

\* The values of the dictionaries: an amount written with a comma, the same
\* amount as a float, an amount 10 above, and a reference.
V_Comma == Text(<<"1", "2", "0", "0", ",", "0", "0">>)

V_Float == PyFloat(12000)

V_1210 == Text(<<"1", "2", "1", "0">>)

V_Ref == Text(<<"F", "A", "-", "1">>)

Values == {V_Comma, V_Float, V_1210, V_Ref}

FieldLists == {<<F_total_ttc>>, <<F_invoice_date>>, <<F_invoice_number, F_total_ttc>>}

Range(seq) == {seq[i] : i \in DOMAIN seq}

\* A prediction may lack a key; a ground truth holds every key, null or not.
Predictions(fields) == UNION {[K -> Values] : K \in SUBSET Range(fields)}

Truths(fields) == [Range(fields) -> Values \cup {None}]

\* The body of the inner loop for one field; the pair is forgotten once its
\* last field is counted.
Evaluated(ev, field, pred_value, truth_value, c) ==
    [ev EXCEPT !.metrics[field] = Counted(Sampled(@), pred_value, truth_value, c),
               !.unlabelled[field] = IF truth_value = None THEN @ + 1 ELSE @,
               !.j = @ + 1,
               !.pc = IF ev.j = Len(ev.fields) THEN "for" ELSE "field",
               !.pred = IF ev.j = Len(ev.fields) THEN None ELSE @,
               !.truth = IF ev.j = Len(ev.fields) THEN None ELSE @]

EvaluatedValues(ev, field, pred_value, truth_value) ==
    Evaluated(ev, field, pred_value, truth_value,
              compare_values(pred_value, truth_value, FieldType(field)))

InitMetrics ==
    /\ PipelineOff
    /\ extraction = None
    /\ enhancement = None
    /\ ocr_run = None
    /\ evaluation \in {[pc |-> "Ready", fields |-> fields, n |-> n, k |-> 0, j |-> 0,
                        pred |-> None, truth |-> None, metrics |-> None,
                        unlabelled |-> None] :
                           fields \in FieldLists, n \in 0..MaxSamples}

\* metrics = {field: FieldMetrics(field_name=field) for field in fields}
MetricsCall ==
    /\ evaluation.pc = "Ready"
    /\ evaluation' = [evaluation EXCEPT
                         !.pc = "for",
                         !.metrics = [f \in Range(evaluation.fields) |-> FieldMetrics(f)],
                         !.unlabelled = [f \in Range(evaluation.fields) |-> 0]]
    /\ UNCHANGED <<pipeline_vars, extraction, ocr_run, enhancement>>

\* zip hands over the next pair.
NextPair ==
    /\ evaluation.pc = "for"
    /\ evaluation.k < evaluation.n
    /\ \E pred \in Predictions(evaluation.fields), truth \in Truths(evaluation.fields) :
           evaluation' = [evaluation EXCEPT !.pc = "field", !.k = @ + 1, !.j = 1,
                                            !.pred = pred, !.truth = truth]
    /\ UNCHANGED <<pipeline_vars, extraction, ocr_run, enhancement>>

\* One field of the pair is compared and counted.
EvaluateField ==
    /\ evaluation.pc = "field"
    /\ \E field \in {evaluation.fields[evaluation.j]} :
           evaluation' = EvaluatedValues(evaluation, field,
                                         Get(evaluation.pred, field, None),
                                         Get(evaluation.truth, field, None))
    /\ UNCHANGED <<pipeline_vars, extraction, ocr_run, enhancement>>

MetricsReturn ==
    /\ evaluation.pc = "for"
    /\ evaluation.k = evaluation.n
    /\ evaluation' = [evaluation EXCEPT !.pc = "Returned"]
    /\ UNCHANGED <<pipeline_vars, extraction, ocr_run, enhancement>>

NextMetrics ==
    \/ MetricsCall
    \/ NextPair
    \/ EvaluateField
    \/ MetricsReturn

SpecMetrics == InitMetrics /\ [][NextMetrics]_vars

\* compare_values taken on its own.
V_Int == PyInt(1200)

V_RefSpaced == Text(<<"f", "a", " ", "1">>)

\* A rate as a float and the same rate two percent lower, as a text.
V_Rate == PyFloat(2)

V_RateLower == Text(<<"0", ".", "1", "9", "6">>)

ComparedValues == Values \cup {None, V_Int, V_RefSpaced, V_Rate, V_RateLower}

FieldTypes == {"string", "number", "date"}

InitCompare ==
    /\ PipelineOff
    /\ extraction = None
    /\ enhancement = None
    /\ ocr_run = None
    /\ evaluation \in {[pc |-> "Ready", predicted |-> predicted, expected |-> expected,
                        field_type |-> field_type, result |-> None] :
                           predicted \in ComparedValues, expected \in ComparedValues,
                           field_type \in FieldTypes}

CompareValues ==
    /\ evaluation.pc = "Ready"
    /\ evaluation' = [evaluation EXCEPT
                         !.pc = "Returned",
                         !.result = compare_values(evaluation.predicted,
                                                   evaluation.expected,
                                                   evaluation.field_type)]
    /\ UNCHANGED <<pipeline_vars, extraction, ocr_run, enhancement>>

NextCompare == CompareValues

SpecCompare == InitCompare /\ [][NextCompare]_vars

\* normalize_value taken on its own, applied to a value and then to what it
\* gave.
MaxLen == 3        \* characters of a text handed to normalize_value

Alphabet == {"A", "b", " ", ".", "-"}

Texts == UNION {[1..n -> Alphabet] : n \in 0..MaxLen}

NormalizedValues == {Text(chars) : chars \in Texts} \cup {None, V_Float, V_Int, V_Comma}

InitNormalize ==
    /\ PipelineOff
    /\ extraction = None
    /\ enhancement = None
    /\ ocr_run = None
    /\ evaluation \in {[pc |-> "Ready", value |-> value, once |-> None, twice |-> None] :
                           value \in NormalizedValues}

NormalizeOnce ==
    /\ evaluation.pc = "Ready"
    /\ evaluation' = [evaluation EXCEPT !.pc = "Once",
                                        !.once = Text(normalize_value(evaluation.value))]
    /\ UNCHANGED <<pipeline_vars, extraction, ocr_run, enhancement>>

NormalizeTwice ==
    /\ evaluation.pc = "Once"
    /\ evaluation' = [evaluation EXCEPT !.pc = "Twice",
                                        !.twice = Text(normalize_value(evaluation.once))]
    /\ UNCHANGED <<pipeline_vars, extraction, ocr_run, enhancement>>

NextNormalize ==
    \/ NormalizeOnce
    \/ NormalizeTwice

SpecNormalize == InitNormalize /\ [][NextNormalize]_vars

----------------------------------------------------------------------------
(* Image enhancement: one call of ImageEnhancer.enhance, sub-stage by       *)
(* sub-stage                                                                *)

\* The sub-stages in the order of the if statements of enhance, under the
\* names of the flags that enable them.
SubStages == <<"deskew", "denoise", "enhance_contrast", "binarize">>

Flags == SUBSET {"deskew", "denoise", "enhance_contrast", "binarize"}

Modes == {"L", "LA", "RGB"}

\* The sub-stage after stage in enhance, "return" after the last.
After(stage) ==
    CASE stage = "deskew" -> "denoise"
      [] stage = "denoise" -> "enhance_contrast"
      [] stage = "enhance_contrast" -> "binarize"
      [] stage = "binarize" -> "return"

\* _denoise_image, _enhance_contrast and _binarize_image: the result of
\* the cv2 call, or the image itself when the call raises.
Rewritten(image, stage, raises) ==
    IF raises THEN {image}
    ELSE {Array(image.mode, Append(image.ops, stage))}

\* _deskew_image: the image itself when a cv2 call raises, when no line is
\* found or when the median angle is below half a degree; the rotated
\* image otherwise.
_deskew_image(image, raises) ==
    IF raises THEN {image}
    ELSE {image, Array(image.mode, Append(image.ops, "deskew"))}

\* What the sub-stage gives for image.
SubStage(image, stage, raises) ==
    IF stage = "deskew" THEN _deskew_image(image, raises)
    ELSE Rewritten(image, stage, raises)

InitEnhance ==
    /\ PipelineOff
    /\ extraction = None
    /\ ocr_run = None
    /\ evaluation = None
    /\ enhancement \in {[pc |-> "Ready", mode |-> mode, enabled |-> enabled,
                          raising |-> raising, gray |-> None,
                          invoked |-> <<>>, out |-> None] :
                             mode \in Modes, enabled \in Flags, raising \in Flags}

\* enhance up to the first sub-stage: the conversion to an array of grey
\* levels.
EnhanceCall ==
    /\ enhancement # None
    /\ enhancement.pc = "Ready"
    /\ \E gray \in {Grayscale(enhancement.mode)} :
           enhancement' =
               IF gray.t = "ndarray"
               THEN [enhancement EXCEPT !.pc = "deskew", !.gray = gray]
               ELSE [enhancement EXCEPT !.pc = "Raised", !.out = gray]
    /\ UNCHANGED <<pipeline_vars, extraction, ocr_run, evaluation>>

\* One if statement of enhance: the sub-stage runs when its flag is set.
EnhanceStep(stage) ==
    /\ enhancement # None
    /\ enhancement.pc = stage
    /\ IF stage \in enhancement.enabled
       THEN \E gray \in SubStage(enhancement.gray, stage,
                                   stage \in enhancement.raising) :
                enhancement' = [enhancement EXCEPT
                                    !.pc = After(stage), !.gray = gray,
                                    !.invoked = Append(@, stage)]
       ELSE enhancement' = [enhancement EXCEPT !.pc = After(stage)]
    /\ UNCHANGED <<pipeline_vars, extraction, ocr_run, evaluation>>

\* return Image.fromarray(gray).
EnhanceReturn ==
    /\ enhancement # None
    /\ enhancement.pc = "return"
    /\ enhancement' = [enhancement EXCEPT !.pc = "Returned", !.out = enhancement.gray]
    /\ UNCHANGED <<pipeline_vars, extraction, ocr_run, evaluation>>

NextEnhance ==
    \/ EnhanceCall
    \/ \E stage \in {"deskew", "denoise", "enhance_contrast", "binarize"} :
           EnhanceStep(stage)
    \/ EnhanceReturn

SpecEnhance == InitEnhance /\ [][NextEnhance]_vars

----------------------------------------------------------------------------
(* Evaluation of a set of annotated documents: evaluate_extraction of       *)
(* evaluation/evaluate_performance.py, one annotation per step              *)

MaxAnnotations == 2

\* What annotation.get("type") gives: the two types of the system, another
\* label, None when the annotation names no type.
AnnotationTypes == {Str("invoice"), Str("contract"), Str("receipt"), None}

\* The annotation of document doc.  labelled: the annotation has a map of
\* expected values (its ground truth, which belongs to doc), not null;
\* named: it has a file name; exists: the file is in samples_dir.
Annotation(doc, type, named, exists, labelled) ==
    [filename |-> IF named THEN [t |-> "str", doc |-> doc] ELSE None,
     type |-> type, exists |-> exists,
     expected |-> IF labelled THEN [t |-> "dict", doc |-> doc] ELSE None]

\* The annotations a document can have: an annotation without a file name
\* or without expected values is taken with one type.
AnnotationsOf(doc) ==
    {Annotation(doc, type, TRUE, exists, TRUE) :
         type \in AnnotationTypes, exists \in BOOLEAN}
    \cup {Annotation(doc, Str("invoice"), TRUE, exists, FALSE) : exists \in BOOLEAN}
    \cup {Annotation(doc, Str("invoice"), FALSE, FALSE, TRUE)}

AnnotationLists ==
    UNION {{annotations \in [1..n -> UNION {AnnotationsOf(doc) : doc \in 1..n}] :
               \A doc \in 1..n : annotations[doc] \in AnnotationsOf(doc)} :
           n \in 0..MaxAnnotations}

\* EvaluationResults() with its default values; the processing times are
\* kept as the documents they were measured on.
EvaluationResults ==
    [field_metrics |-> EmptyDict, processing_times |-> <<>>,
     total_documents |-> 0, successful_extractions |-> 0,
     failed_extractions |-> 0]

\* result.data.to_dict_display() of the record extracted from document doc.
Predicted(doc) == [t |-> "dict", doc |-> doc]

\* The try block up to processing_time: pipeline.process_file on a file
\* that exists, which returns a result and raises nothing, the extractor of
\* the annotation's type on the simulated text otherwise.  A result is
\* success and data; an exception stands for itself.
Succeeded(doc) == [t |-> "Result", success |-> TRUE, data |-> Predicted(doc)]

Failed == [t |-> "Result", success |-> FALSE, data |-> None]

Processed(annotation, doc) ==
    IF annotation.exists
    THEN IF annotation.type \in {Str("invoice"), Str("contract"), None}
         THEN {Succeeded(doc), Failed}
         ELSE {Failed}
    ELSE IF annotation.expected = None
         THEN {Exc("AttributeError", "'NoneType' object has no attribute 'get'")}
         ELSE {Succeeded(doc), Exc("ExtractionError", "Erreur lors de l'extraction")}

\* The counters of results after the try statement of one annotation.
Tallied_FailureTwice(results, outcome, doc) ==
    IF outcome.t # "Result"
    THEN [results EXCEPT !.failed_extractions = @ + 2]
    ELSE [results EXCEPT
              !.processing_times = Append(@, doc),
              !.successful_extractions = IF outcome.success THEN @ + 1 ELSE @,
              !.failed_extractions = IF outcome.success THEN @ ELSE @ + 1]

Tallied(results, outcome, doc) ==
    IF outcome.t # "Result"
    THEN [results EXCEPT !.failed_extractions = @ + 1]
    ELSE [results EXCEPT
              !.processing_times = Append(@, doc),
              !.successful_extractions = IF outcome.success THEN @ + 1 ELSE @,
              !.failed_extractions = IF outcome.success THEN @ ELSE @ + 1]

\* A successful result's prediction goes to the invoice list when the
\* annotation's type is "invoice".
ToInvoices(annotation, outcome) ==
    outcome.t = "Result" /\ outcome.success /\ annotation.type = Str("invoice")

\* It goes to the contract list in every other case (the else branch).
ToContracts(annotation, outcome) ==
    outcome.t = "Result" /\ outcome.success /\ annotation.type # Str("invoice")

INVOICE_FIELDS ==
    {"invoice_number", "invoice_date", "supplier_name", "client_name",
     "total_ht", "total_tva", "total_ttc"}

CONTRACT_FIELDS ==
    {"contract_type", "signature_date", "effective_date", "total_amount",
     "duration"}

\* The number of pairs zip(predictions, ground_truth) hands over, which is
\* what total_samples counts for every field.
Zipped(predictions, ground_truth) ==
    IF Len(predictions) <= Len(ground_truth) THEN Len(predictions)
    ELSE Len(ground_truth)

\* calculate_field_metrics, of which total_samples is kept.  truth.get
\* raises on a ground truth that is None.
total_samples(predictions, ground_truth, fields) ==
    IF \E k \in 1..Zipped(predictions, ground_truth) : ground_truth[k] = None
    THEN Exc("AttributeError", "'NoneType' object has no attribute 'get'")
    ELSE Dict([f \in fields |-> Zipped(predictions, ground_truth)])

\* results.field_metrics.update(metrics).
Updated(field_metrics, metrics) ==
    [f \in DOMAIN field_metrics \cup DOMAIN metrics |->
         IF f \in DOMAIN metrics THEN metrics[f] ELSE field_metrics[f]]

InitEvaluate ==
    /\ PipelineOff
    /\ extraction = None
    /\ enhancement = None
    /\ ocr_run = None
    /\ evaluation \in {[pc |-> "for", annotations |-> annotations, i |-> 0,
                        results |-> EvaluationResults,
                        predictions_invoice |-> <<>>, ground_truth_invoice |-> <<>>,
                        predictions_contract |-> <<>>, ground_truth_contract |-> <<>>,
                        exc |-> None] :
                           annotations \in AnnotationLists}

\* One pass of the loop over the annotations.  samples_dir / filename is
\* outside the try statement and raises on a file name that is None.
EvaluateAnnotation ==
    /\ evaluation.pc = "for"
    /\ evaluation.i < Len(evaluation.annotations)
    /\ \E doc \in {evaluation.i + 1} :
       \E annotation \in {evaluation.annotations[doc]} :
         IF annotation.filename = None
         THEN evaluation' = [evaluation EXCEPT
                  !.pc = "Raised",
                  !.exc = Exc("TypeError", "unsupported operand type(s) for /")]
         ELSE \E outcome \in Processed(annotation, doc) :
                evaluation' = [evaluation EXCEPT
                  !.i = doc,
                  !.results = Tallied([@ EXCEPT !.total_documents = @ + 1],
                                      outcome, doc),
                  !.predictions_invoice =
                      IF ToInvoices(annotation, outcome)
                      THEN Append(@, outcome.data) ELSE @,
                  !.ground_truth_invoice =
                      IF ToInvoices(annotation, outcome)
                      THEN Append(@, annotation.expected) ELSE @,
                  !.predictions_contract =
                      IF ToContracts(annotation, outcome)
                      THEN Append(@, outcome.data) ELSE @,
                  !.ground_truth_contract =
                      IF ToContracts(annotation, outcome)
                      THEN Append(@, annotation.expected) ELSE @]
    /\ UNCHANGED <<pipeline_vars, extraction, ocr_run, enhancement>>

\* After the loop: the metrics of the invoice fields when there is a
\* prediction for an invoice, those of the contract fields likewise, and
\* the return.
EvaluateReturn ==
    /\ evaluation.pc = "for"
    /\ evaluation.i = Len(evaluation.annotations)
    /\ \E invoice_metrics \in
           {IF evaluation.predictions_invoice = <<>> THEN Dict(EmptyDict)
            ELSE total_samples(evaluation.predictions_invoice,
                               evaluation.ground_truth_invoice, INVOICE_FIELDS)} :
       \E contract_metrics \in
           {IF evaluation.predictions_contract = <<>> THEN Dict(EmptyDict)
            ELSE total_samples(evaluation.predictions_contract,
                               evaluation.ground_truth_contract, CONTRACT_FIELDS)} :
         evaluation' =
             IF IsExc(invoice_metrics)
             THEN [evaluation EXCEPT !.pc = "Raised", !.exc = invoice_metrics]
             ELSE IF IsExc(contract_metrics)
             THEN [evaluation EXCEPT
                      !.pc = "Raised", !.exc = contract_metrics,
                      !.results.field_metrics = Updated(@, invoice_metrics.d)]
             ELSE [evaluation EXCEPT
                      !.pc = "Returned",
                      !.results.field_metrics =
                          Updated(Updated(@, invoice_metrics.d), contract_metrics.d)]
    /\ UNCHANGED <<pipeline_vars, extraction, ocr_run, enhancement>>

NextEvaluate ==
    \/ EvaluateAnnotation
    \/ EvaluateReturn

SpecEvaluate == InitEvaluate /\ [][NextEvaluate]_vars

----------------------------------------------------------------------------
(* Properties of the evaluation *)

Evaluating == evaluation # None /\ evaluation.pc # "Ready"

Positives(m) == m.true_positives + m.false_positives + m.false_negatives

\* C18: for every field and after every sample calculate_field_metrics has
\* processed, exact_matches + partial_matches = true_positives.
C18_MatchesAreTruePositives ==
    Evaluating =>
        \A f \in DOMAIN evaluation.metrics :
            evaluation.metrics[f].exact_matches + evaluation.metrics[f].partial_matches
                = evaluation.metrics[f].true_positives

\* A field has been counted an exact match and a partial match.
C18_Witness ==
    /\ Evaluating
    /\ evaluation.pc = "Returned"
    /\ evaluation.fields = <<F_total_ttc>>
    /\ evaluation.metrics[F_total_ttc].exact_matches = 1
    /\ evaluation.metrics[F_total_ttc].partial_matches = 1
    /\ evaluation.metrics[F_total_ttc].true_positives = 2

\* C19: for every field and after every sample, true_positives +
\* false_positives + false_negatives <= total_samples, and the two are equal
\* exactly when every sample so far had an expected value that is not null.
C19_CountersWithinSamples ==
    Evaluating =>
        \A f \in DOMAIN evaluation.metrics :
            /\ Positives(evaluation.metrics[f]) <= evaluation.metrics[f].total_samples
            /\ Positives(evaluation.metrics[f]) = evaluation.metrics[f].total_samples
                   <=> evaluation.unlabelled[f] = 0

\* One sample with an expected value and one without, a prediction lacking
\* for the first: one false negative in two samples.
C19_Witness ==
    /\ Evaluating
    /\ evaluation.pc = "Returned"
    /\ evaluation.fields = <<F_invoice_date>>
    /\ evaluation.metrics[F_invoice_date].total_samples = 2
    /\ evaluation.metrics[F_invoice_date].false_negatives = 1
    /\ Positives(evaluation.metrics[F_invoice_date]) = 1
    /\ evaluation.unlabelled[F_invoice_date] = 1

\* C20: compare_values("1200,00", 1200.0, "number") answers exact = true.
C20_CommaAmountExact ==
    (/\ evaluation # None
     /\ evaluation.pc = "Returned"
     /\ evaluation.predicted = V_Comma
     /\ evaluation.expected = V_Float
     /\ evaluation.field_type = "number")
        => evaluation.result.exact

ComparisonDone == evaluation # None /\ evaluation.pc = "Returned"

\* |p - e| / |e| < 1 / 100, for fractions p and e.
RelativeDifferenceBelow1Percent(p, e) ==
    /\ e.num # 0
    /\ 100 * Abs(p.num * e.den - e.num * p.den) < Abs(e.num) * p.den

BothParsedAndClose(pred_num, exp_num) ==
    /\ ~IsExc(pred_num)
    /\ ~IsExc(exp_num)
    /\ RelativeDifferenceBelow1Percent(pred_num.q, exp_num.q)

OneContainsTheOther(a, b) == Contains(a, b) \/ Contains(b, a)

\* C21: for a predicted and an expected value that are not null and whose
\* normalised forms differ, compare_values answers exact = false, and
\* partial = true exactly when one normalised form is a substring of the
\* other or the field is a number and the two parsed numbers differ by less
\* than 1% of the expected one; "1210" against 1200 as a number is partial.
C21_PartialIffContainedOrClose ==
    (/\ ComparisonDone
     /\ evaluation.predicted # None
     /\ evaluation.expected # None
     /\ normalize_value(evaluation.predicted) # normalize_value(evaluation.expected))
        => /\ ~evaluation.result.exact
           /\ evaluation.result.partial
                  <=> \/ OneContainsTheOther(normalize_value(evaluation.predicted),
                                             normalize_value(evaluation.expected))
                      \/ /\ evaluation.field_type = "number"
                         /\ BothParsedAndClose(float(evaluation.predicted),
                                               float(evaluation.expected))

\* C22: normalize_value applied to its own result gives that result again.
C22_NormalizeIdempotent ==
    (evaluation # None /\ evaluation.pc = "Twice") => evaluation.twice = evaluation.once

\* "A.b" was normalised to "a b", and "a b" to itself.
C22_Witness ==
    /\ evaluation # None
    /\ evaluation.pc = "Twice"
    /\ evaluation.value = Text(<<"A", ".", "b">>)
    /\ evaluation.once = Text(<<"a", " ", "b">>)
    /\ evaluation.twice = Text(<<"a", " ", "b">>)

\* The ratios of one FieldMetrics are what the claim says and lie in [0, 1].
RatiosOf(m, p, r) ==
    /\ InUnitInterval(p)
    /\ InUnitInterval(r)
    /\ InUnitInterval(f1_score(m))
    /\ InUnitInterval(accuracy(m))
    /\ p.num * (m.true_positives + m.false_positives) = p.den * m.true_positives
    /\ r.num * (m.true_positives + m.false_negatives) = r.den * m.true_positives
    /\ m.true_positives + m.false_positives = 0 => p = RatZero
    /\ m.true_positives + m.false_negatives = 0 => r = RatZero
    /\ p = RatZero \/ r = RatZero => f1_score(m) = RatZero
    /\ (p # RatZero /\ r # RatZero)
           => f1_score(m).num * (p.num * r.den + r.num * p.den)
                  = f1_score(m).den * 2 * p.num * r.num
    /\ accuracy(m).num * m.total_samples = accuracy(m).den * m.exact_matches
    /\ m.total_samples = 0 => accuracy(m) = RatZero

\* C23: for every FieldMetrics calculate_field_metrics can build, precision
\* = tp / (tp + fp), recall = tp / (tp + fn), f1_score their harmonic mean
\* and accuracy = exact_matches / total_samples all lie in [0, 1], and each
\* is 0 when its denominator is 0.
C23_RatiosInUnitInterval ==
    Evaluating =>
        \A f \in DOMAIN evaluation.metrics :
            RatiosOf(evaluation.metrics[f], precision(evaluation.metrics[f]),
                     recall(evaluation.metrics[f]))

\* One true positive that is exact and one false negative: precision 1,
\* recall 1/2, f1 2/3, accuracy 1/2; the other field of the list was never
\* expected and all its ratios are 0.
C23_Witness ==
    /\ Evaluating
    /\ evaluation.pc = "Returned"
    /\ evaluation.fields = <<F_invoice_number, F_total_ttc>>
    /\ evaluation.metrics[F_total_ttc].total_samples = 2
    /\ precision(evaluation.metrics[F_total_ttc]) = Rat(1, 1)
    /\ recall(evaluation.metrics[F_total_ttc]) = Rat(1, 2)
    /\ f1_score(evaluation.metrics[F_total_ttc]) = Rat(2, 3)
    /\ accuracy(evaluation.metrics[F_total_ttc]) = Rat(1, 2)
    /\ Positives(evaluation.metrics[F_invoice_number]) = 0
    /\ f1_score(evaluation.metrics[F_invoice_number]) = RatZero

\* By how much each counter of a field grew: true_positives,
\* false_positives, false_negatives, exact_matches, partial_matches,
\* total_samples.
Growth(before, after) ==
    <<after.true_positives - before.true_positives,
      after.false_positives - before.false_positives,
      after.false_negatives - before.false_negatives,
      after.exact_matches - before.exact_matches,
      after.partial_matches - before.partial_matches,
      after.total_samples - before.total_samples>>

\* The growth the claim gives for a predicted and an expected value.
GrowthFor(predicted, expected, c) ==
    IF expected = None THEN <<0, 0, 0, 0, 0, 1>>
    ELSE IF predicted = None THEN <<0, 0, 1, 0, 0, 1>>
    ELSE IF c.exact THEN <<1, 0, 0, 1, 0, 1>>
    ELSE IF c.partial THEN <<1, 0, 0, 0, 1, 1>>
    ELSE <<0, 1, 0, 0, 0, 1>>

FieldStep(f, predicted, expected) ==
    /\ Growth(evaluation.metrics[f], evaluation'.metrics[f])
           = GrowthFor(predicted, expected, compare_values(predicted, expected, FieldType(f)))
    /\ \A g \in DOMAIN evaluation.metrics \ {f} :
           evaluation'.metrics[g] = evaluation.metrics[g]

\* C26: for a field and a pair, calculate_field_metrics adds 1 to
\* total_samples; with both values not null it adds 1 to true_positives and
\* exact_matches on an exact match, 1 to true_positives and partial_matches
\* on a partial match that is not exact, 1 to false_positives otherwise;
\* with a null prediction for an expected value, 1 to false_negatives; with
\* a null expected value, nothing more.  No other field's counter changes.
C26_CountersPerField ==
    [][(evaluation # None /\ evaluation.pc = "field")
           => FieldStep(evaluation.fields[evaluation.j],
                        Get(evaluation.pred, evaluation.fields[evaluation.j], None),
                        Get(evaluation.truth, evaluation.fields[evaluation.j], None))]_vars

\* Two pairs over two fields: for the amount an exact match and a partial
\* one, for the reference a false positive and a false negative.
C26_Witness ==
    /\ Evaluating
    /\ evaluation.pc = "Returned"
    /\ evaluation.fields = <<F_invoice_number, F_total_ttc>>
    /\ Growth(FieldMetrics(F_total_ttc), evaluation.metrics[F_total_ttc])
           = <<2, 0, 0, 1, 1, 2>>
    /\ Growth(FieldMetrics(F_invoice_number), evaluation.metrics[F_invoice_number])
           = <<0, 1, 1, 0, 0, 2>>

----------------------------------------------------------------------------
(* Properties of the simulation backend *)

\* C24: with simulate_errors off, two calls of generate_json with the same
\* prompt give the same response, and two extractions of the same text the
\* same record.
C24_SimulationDeterministic ==
    (extraction # None /\ extraction.pc = "Twice")
        => /\ extraction.first.reply = extraction.second.reply
           /\ extraction.first.outcome = extraction.second.outcome

\* C27: on MockLLMClient() and a text that is not blank, extract of either
\* extractor returns a record with extraction_method "llm", the text
\* unchanged as raw_text and a confidence_score that is not null.
C27_SimulationExtractsEveryText ==
    (/\ extraction # None
     /\ extraction.client = "MockLLMClient"
     /\ extraction.pc \in {"Returned", "Raised"}
     /\ ~IsBlank(extraction.ocr_text))
        => /\ extraction.pc = "Returned"
           /\ extraction.outcome.extraction_method = "llm"
           /\ extraction.outcome.raw_text = extraction.ocr_text
           /\ extraction.outcome.confidence_score # None

----------------------------------------------------------------------------
(* Properties of the image enhancement *)

\* enhance has returned an image.
Enhanced == enhancement # None /\ enhancement.pc = "Returned"

\* The flag of the sub-stage is set for the call of enhance in progress.
IsEnabled(stage) == stage \in enhancement.enabled

\* The step runs a sub-stage whose cv2 call raises.
SubStageRaises ==
    /\ enhancement # None
    /\ enhancement.pc \in enhancement.enabled \cap enhancement.raising

\* The sub-stages enhance invoked are the enabled ones in the order deskew,
\* denoise, contrast, binarize.
EnabledInOrder ==
    Enhanced => enhancement.invoked = SelectSeq(SubStages, IsEnabled)

\* A sub-stage that raises hands its input on as it got it.
RaisingPassesThrough ==
    [][SubStageRaises => enhancement'.gray = enhancement.gray]_vars

\* C25: preprocessing is best-effort: enhance applies the enabled
\* sub-stages in the order deskew, denoise, contrast, binarize; a sub-stage
\* that fails hands its input unmodified to the next; and no failure inside
\* enhance or enhance_batch ends enhance with an exception or makes
\* process_file or process_bytes return a failed result.
C25_PreprocessingBestEffort ==
    /\ []EnabledInOrder
    /\ RaisingPassesThrough
    /\ [](enhancement # None => enhancement.pc # "Raised")
    /\ []((Returned /\ result.success = FALSE) => call.exc.t # "cv2.error")

----------------------------------------------------------------------------
(* Properties of evaluate_extraction *)

\* evaluate_extraction has returned its results.
EvaluationReturned ==
    evaluation # None /\ evaluation.pc = "Returned"

\* C28: when evaluate_extraction returns, every document is counted once,
\* as successful or as failed: successful_extractions + failed_extractions
\* = total_documents = the number of annotations, and there are at most
\* total_documents processing times.
C28_EveryDocumentCountedOnce ==
    EvaluationReturned =>
        /\ evaluation.results.successful_extractions
               + evaluation.results.failed_extractions
           = evaluation.results.total_documents
        /\ evaluation.results.total_documents = Len(evaluation.annotations)
        /\ Len(evaluation.results.processing_times)
               <= evaluation.results.total_documents

\* Two annotations evaluated, one extraction successful and one failed with
\* an exception, which leaves no processing time.
C28_Witness ==
    /\ EvaluationReturned
    /\ evaluation.results.total_documents = 2
    /\ evaluation.results.successful_extractions = 1
    /\ evaluation.results.failed_extractions = 1
    /\ Len(evaluation.results.processing_times) = 1

\* The documents whose extraction succeeded: those with a prediction.
Contributing ==
    {evaluation.predictions_invoice[k].doc :
         k \in 1..Len(evaluation.predictions_invoice)}
    \cup {evaluation.predictions_contract[k].doc :
              k \in 1..Len(evaluation.predictions_contract)}

\* The annotations of the given type whose extraction succeeded.
SucceededOfType(type) ==
    {doc \in Contributing : evaluation.annotations[doc].type = type}

\* The two lists have one length and hold, place by place, the prediction
\* and the ground truth of one document.
Aligned(predictions, ground_truth) ==
    /\ Len(predictions) = Len(ground_truth)
    /\ \A k \in 1..Len(predictions) : predictions[k].doc = ground_truth[k].doc

\* Every field of the list that has metrics has the given total_samples.
SamplesOf(fields, n) ==
    \A f \in fields \cap DOMAIN evaluation.results.field_metrics :
        evaluation.results.field_metrics[f] = n

\* C29: only documents whose extraction succeeded contribute to the field
\* metrics, each prediction is scored against the ground truth of its own
\* document, the lists handed to calculate_field_metrics have one length,
\* and total_samples of every invoice (contract) field is the number of
\* invoice (contract) annotations whose extraction succeeded.
C29_MetricsOfSucceededDocuments ==
    EvaluationReturned =>
        /\ Aligned(evaluation.predictions_invoice, evaluation.ground_truth_invoice)
        /\ Aligned(evaluation.predictions_contract, evaluation.ground_truth_contract)
        /\ Cardinality(Contributing) = evaluation.results.successful_extractions
        /\ SamplesOf(INVOICE_FIELDS, Cardinality(SucceededOfType(Str("invoice"))))
        /\ SamplesOf(CONTRACT_FIELDS, Cardinality(SucceededOfType(Str("contract"))))

----------------------------------------------------------------------------
(* Properties of a pipeline built without the OCR engine *)

\* The images of the call's document before enhancement: what the
\* conversion of the PDF or the decoding of the image gives.
Loaded(c) ==
    IF c.entry = "process_file"
    THEN IF is_pdf(c.filename) THEN convert_file(c.content, 1)
         ELSE IF is_image(c.filename) THEN load_image(c.content)
         ELSE Exc("ValueError", "Format de fichier non supporté")
    ELSE IF SuffixLower(c.filename) = ".pdf" THEN convert_bytes(c.content, 1)
         ELSE image_open(c.content)

\* The document of the call exists, has a supported extension and can be
\* read: it is a PDF that converts or an image that decodes.
ReadableSupported ==
    /\ call.exists
    /\ ~UnsupportedExtension(call.filename)
    /\ ~IsExc(Loaded(call))

\* C30: a pipeline built while the OCR engine is not found has self.ocr =
\* None, no call changes that (availability is not probed again), and every
\* call on a readable document of a supported format returns a failed
\* result from the TextExtraction stage: preprocessing ran, and neither the
\* classifier nor an extractor called the backend.
C30_OcrDisabledFailsAtTextExtraction ==
    /\ [][CallStep => self'.ocr = self.ocr]_vars
    /\ []((Returned /\ self.ocr = None /\ ReadableSupported) =>
              /\ result.success = FALSE
              /\ stages = <<"Preprocessing", "TextExtraction">>
              /\ llm_log = <<>>)

====
